---- MODULE Spec2Model ----
(***************************************************************************)
(* A model of metisoft-database-util's DatabaseConnection                  *)
(* (src/src/DatabaseConnection.js): the pool of leasable clients, the      *)
(* managed query path (__DI_simpleQuery), the explicit-client path         *)
(* (getClient, __DI_queryWithClient, the transaction primitives and the    *)
(* caller's final client.release() of the tutorial), the registry of      *)
(* named connections (getConnection), runBasicService, the compiled-query  *)
(* functions (squelQuery and its variants), the 'error' handlers of        *)
(* __startPool, and of src/src/databaseUtil.js the name conversions and    *)
(* genWhereLikePrefixConditions.                                           *)
(*                                                                         *)
(* Every promise handler (.then / .catch / .finally callback) of the       *)
(* source is one atomic step: JavaScript runs a callback to completion,    *)
(* and other tasks interleave only between callbacks.                      *)
(***************************************************************************)
EXTENDS Naturals, FiniteSets, Sequences, TLC

\* Bounds of the model.
PoolMax == 1        \* connection.max: the number of clients the pool owns
NumQueries == 1     \* concurrent managed query() calls
MaxOps == 2         \* operations one caller runs on its client before releasing
MaxCalls == 3       \* getConnection() calls made in one run
MaxSeries == 3      \* managed queries one caller runs one after another
MaxCodes == 2       \* error codes one fnValidate call pushes
MaxRows == 2        \* rows in one query result
MaxRowId == 2       \* distinct rows {id: i} a result can hold
MaxFaults == 2      \* 'error' events the pool and its clients emit in one run
MaxName == 4        \* characters of a name given to the name conversions
MaxCriteria == 2    \* properties of a criteria object
MaxArgs == 2        \* elements of the args array a caller passes
NumLive == 2        \* concurrent managed query() calls that share the pool to the end

Clients == 1 .. PoolMax
NoClient == 0       \* JavaScript undefined / null in a `client` variable

Queries == {<<"q", i>> : i \in 1 .. NumQueries}
\* The managed queries of a run in which nobody holds an explicit client.
LiveQueries == {<<"q", i>> : i \in 1 .. NumLive}
\* One caller holds an explicit client; the managed queries run beside it.
Sessions == {<<"s", 1>>}
NoOne == <<"none", 0>>

\* Promise outcomes.
Pending == [kind |-> "pending", val |-> "none"]
Resolved(v) == [kind |-> "resolved", val |-> v]
Rejected(e) == [kind |-> "rejected", val |-> e]

\* What the driver can answer to one client.query(text, args, callback):
\* callback(null, result), callback(err), or a synchronous throw inside the
\* Promise executor of __makeClientQueryPromise (which rejects the promise).
DriverAnswers == {Resolved("OK"), Rejected("CLIENT_ERROR")}
SyncThrow == Rejected("THROWN")

NoStmt == [text |-> "none", client |-> NoClient]

VARIABLES
  owner,      \* pool: owner[c] is the holder client c is leased to, or NoOne (idle)
  dirty,      \* dirty[c]: the last ROLLBACK on c failed, its transaction state is unknown
  servedDirty,\* holders that pool.connect() served a dirty client
  \* ---- managed query calls (__DI_simpleQuery) ----
  qpc,        \* position in the promise chain
  qconn,      \* the client __pool.connect() resolved with
  qclient,    \* the closure variable `client`
  qval,       \* the value the chain carries into the next handler
  qout,       \* outcome of the promise query() returned
  qacq,       \* clients this call acquired from the pool
  qrel,       \* release() calls this call made
  qissued,    \* the statement this call handed to the driver
  qn,         \* queries of the caller's series that ran before the current one
  qfailed,    \* one of those earlier queries of the series was rejected
  \* ---- callers that hold an explicit client (tutorial pattern) ----
  spc,        \* position of the caller
  sclient,    \* the caller's `client` variable
  sop,        \* the operation in progress / last run
  sstmt,      \* outcome of the operation's __makeClientQueryPromise
  sres,       \* outcome of the promise the operation returned
  sops,       \* operations run so far
  srel,       \* release() calls made on the caller's client, by anyone, during its lease
  soprel,     \* release() calls made by the operation in progress / last run
  suse,       \* a statement was issued on the client after release() was called on it
  sissued,    \* the statement the operation handed to the driver
  \* ---- the trace of statements (recorded by the traced calls only) ----
  scalls,     \* scalls[s]: the operations the caller called, in call order
  clog,       \* clog[c]: the statements client c received, in order of receipt
  \* ---- the registry DatabaseConnection.__connections ----
  connOwn,    \* own properties of the registry object: name -> handle, 0 if absent
  connProto,  \* the registry object's prototype: 0 is Object.prototype, else a handle
  nHandles,   \* DatabaseConnection objects registered so far (handles are 1 .. nHandles)
  hcfg,       \* hcfg[h]: the __config of handle h
  pools,      \* pools[name]: pools started by __startPool(name, ...)
  ncalls,     \* getConnection() calls made so far
  ret,        \* what the last getConnection() call did
  first,      \* first[name]: handle and config of the first successful call for name
  call,       \* the arguments of the last getConnection() call
  rfailed,    \* names for which a call found no configuration or could not start the pool
  \* ---- one runBasicService(config) call ----
  vpc,        \* position of the call
  vcfg,       \* the config the caller passed
  vvalid,     \* what fnValidate did: "true", "false", "threw", or "none" (not called)
  verrors,    \* the array `errors`
  vreq,       \* the variable `req`
  vdbv,       \* the promise fnDbValidate returned
  vq,         \* what fnMakeQuery returned
  vpath,      \* how the execution function reaches the database
  vacq,       \* clients the call acquired from the pool
  vrel,       \* release() calls the call made
  vstmt,      \* the statement the call handed to the driver
  vlog,       \* the callbacks and execution functions invoked, in order
  vout,       \* the outcome of the call
  \* ---- one call of a query operation, run with verbose off and with verbose on ----
  wenv,       \* the call and what the pool and the driver do for it
  wpc,        \* wpc[r]: position of run r in its promise chain
  wclient,    \* wclient[r]: the closure variable `client` of __DI_simpleQuery
  wval,       \* wval[r]: the value the chain carries into the next handler
  wtrace,     \* wtrace[r]: the acquire, execute and release steps of run r, in order
  wconsole,   \* wconsole[r]: calls of console.log / console.error made by run r
  wimpl,      \* wimpl[r]: the implementations query() invoked, in order
  wquery,     \* wquery[r]: the calls of query() with the arguments it received, in order
  wout,       \* wout[r]: outcome of the promise the call returned
  \* ---- the 'error' events of the pool and of its clients ----
  flog,       \* what the two 'error' handlers of __startPool wrote to the console
  \* ---- one call of the functions of databaseUtil ----
  npc,        \* what was called: "idle", "names" or "where"
  nin,        \* the name given to the conversions
  njs,        \* sqlName2JsName(nin)
  nsql,       \* jsName2SqlName(nin)
  njsBack,    \* sqlName2JsName(jsName2SqlName(nin))
  nsqlBack,   \* jsName2SqlName(sqlName2JsName(nin))
  gcriteria,  \* the criteria given to genWhereLikePrefixConditions
  gargs,      \* the args given to it
  gout        \* what it returned, and the caller's array after the call

poolVars == <<owner, dirty, servedDirty>>
queryVars == <<qpc, qconn, qclient, qval, qout, qacq, qrel, qissued>>
sessVars == <<spc, sclient, sop, sstmt, sres, sops, srel, soprel, suse, sissued>>
regVars == <<connOwn, connProto, nHandles, hcfg, pools, ncalls, ret, first, call, rfailed>>
serVars == <<qn, qfailed>>
logVars == <<scalls, clog>>
\* The state outside the database paths.
svcVars == <<vpc, vcfg, vvalid, verrors, vreq, vdbv, vq, vpath, vacq, vrel, vstmt,
             vlog, vout>>
callVars == <<wenv, wpc, wclient, wval, wtrace, wconsole, wimpl, wquery, wout>>
faultVars == <<flog>>
\* The state of the sections that stand beside the database paths, the
\* registry, the service and the single call.
nameVars == <<npc, nin, njs, nsql, njsBack, nsqlBack, gcriteria, gargs, gout>>
sideVars == <<faultVars, nameVars>>
extVars == <<regVars, svcVars, callVars, sideVars>>
\* What the steps of one query or operation leave alone.
offVars == <<extVars, serVars, logVars>>
\* What the steps outside the database paths leave alone.
dbVars == <<poolVars, queryVars, sessVars, serVars, logVars, sideVars>>
vars == <<dbVars, regVars, svcVars, callVars>>

-----------------------------------------------------------------------------
(* The pool (pg-pool, as the repository's documentation describes it).     *)

\* pool.connect() can serve the clients that are not leased.
Idle(own) == {c \in Clients : own[c] = NoOne}

\* pool.connect() resolving with client c for holder h.
PoolLease(own, c, h) == [own EXCEPT ![c] = h]

\* client.release(): "release the client back to the pool".
PoolRelease(own, c) == [own EXCEPT ![c] = NoOne]

\* A lease of c to h, with the bookkeeping of dirty clients.
Lease(c, h) ==
  /\ c \in Idle(owner)
  /\ owner' = PoolLease(owner, c, h)
  /\ servedDirty' = IF dirty[c] THEN servedDirty \cup {h} ELSE servedDirty
  /\ UNCHANGED dirty

-----------------------------------------------------------------------------
(* Managed path: __DI_simpleQuery.                                         *)

\* A variant whose .then drops the client without releasing it.
SimpleQueryThenNoRelease(client, result) ==
  [release |-> FALSE, client |-> NoClient, outcome |-> Resolved(result)]

\* A variant that forgets `client = null` after releasing.
SimpleQueryThenKeepsClient(client, result) ==
  [release |-> TRUE, client |-> client, outcome |-> Resolved(result)]

\* .then(function(result) { client.release(); client = null; ... return result; })
SimpleQueryThen(client, result) ==
  [release |-> TRUE, client |-> NoClient, outcome |-> Resolved(result)]

\* A variant whose .catch drops the client without releasing it.
SimpleQueryCatchNoRelease(client, err) ==
  [release |-> FALSE, client |-> NoClient, outcome |-> Rejected(err)]

\* A variant whose .catch calls release() without looking at `client`.
SimpleQueryCatchAlwaysReleases(client, err) ==
  [release |-> TRUE, client |-> NoClient, outcome |-> Rejected(err)]

\* A variant whose .catch releases the client only after an error the driver
\* reported, and drops it when client.query() threw.
SimpleQueryCatchReleasesOnDriverError(client, err) ==
  [release |-> client # NoClient /\ err = "CLIENT_ERROR", client |-> NoClient,
   outcome |-> Rejected(err)]

\* A variant whose .catch hands the statement to the driver again and
\* returns its promise.
SimpleQueryCatchRetries(client, err) ==
  [release |-> FALSE, client |-> client, outcome |-> Pending]

\* .catch(function(err) { if (client) { client.release(); client = null; } ... throw err; })
SimpleQueryCatch(client, err) ==
  [release |-> client # NoClient, client |-> NoClient, outcome |-> Rejected(err)]

\* .finally(function() { if (client) { client.release(); } })
SimpleQueryFinally(client) ==
  [release |-> client # NoClient]

\* __pool.connect() settles: it resolves with an idle client, or rejects.
SQ_Connect(q) ==
  /\ qpc[q] = "start"
  /\ \/ \E c \in Clients :
          /\ Lease(c, q)
          /\ qpc' = [qpc EXCEPT ![q] = "then1"]
          /\ qval' = [qval EXCEPT ![q] = Resolved("client")]
          /\ qconn' = [qconn EXCEPT ![q] = c]
          /\ qacq' = [qacq EXCEPT ![q] = @ + 1]
     \/ /\ qpc' = [qpc EXCEPT ![q] = "catch"]
        /\ qval' = [qval EXCEPT ![q] = Rejected("PG_ERROR")]
        /\ UNCHANGED <<poolVars, qacq, qconn>>
  /\ UNCHANGED <<qclient, qout, qrel, qissued, sessVars, offVars>>

\* .then(function(c) { client = c; ...; return self.__makeClientQueryPromise(...) })
SQ_Then1(q) ==
  /\ qpc[q] = "then1"
  /\ qclient' = [qclient EXCEPT ![q] = qconn[q]]
  /\ qissued' = [qissued EXCEPT ![q] = [text |-> "SQL", client |-> qconn[q]]]
  /\ \/ /\ qpc' = [qpc EXCEPT ![q] = "query"]
        /\ UNCHANGED qval
     \/ /\ qpc' = [qpc EXCEPT ![q] = "catch"]
        /\ qval' = [qval EXCEPT ![q] = SyncThrow]
  /\ UNCHANGED <<poolVars, qconn, qout, qacq, qrel, sessVars, offVars>>

\* The driver calls back: function(err, result) { if (err) reject(err) else resolve(result) }
SQ_QueryDone(q) ==
  /\ qpc[q] = "query"
  /\ \E a \in DriverAnswers :
       /\ qval' = [qval EXCEPT ![q] = a]
       /\ qpc' = [qpc EXCEPT ![q] = IF a.kind = "resolved" THEN "then2" ELSE "catch"]
  /\ UNCHANGED <<poolVars, qconn, qclient, qout, qacq, qrel, qissued, sessVars, offVars>>

\* Applies what a handler of the chain did to the closure and the pool.
SQ_Apply(q, eff, next) ==
  /\ qpc' = [qpc EXCEPT ![q] = next]
  /\ qclient' = [qclient EXCEPT ![q] = eff.client]
  /\ qval' = [qval EXCEPT ![q] = eff.outcome]
  /\ IF eff.release
       THEN /\ owner' = PoolRelease(owner, qclient[q])
            /\ qrel' = [qrel EXCEPT ![q] = @ + 1]
       ELSE UNCHANGED <<owner, qrel>>
  /\ UNCHANGED <<dirty, servedDirty, qconn, qacq, qissued, sessVars, offVars>>

SQ_Then2(q) ==
  /\ qpc[q] = "then2"
  /\ SQ_Apply(q, SimpleQueryThen(qclient[q], qval[q].val), "finally")
  /\ UNCHANGED qout

SQ_Catch(q) ==
  /\ qpc[q] = "catch"
  /\ SQ_Apply(q, SimpleQueryCatch(qclient[q], qval[q].val), "finally")
  /\ UNCHANGED qout

\* .finally runs its callback and passes the outcome through.
SQ_Finally(q) ==
  /\ qpc[q] = "finally"
  /\ SQ_Apply(q, [release |-> SimpleQueryFinally(qclient[q]).release,
                  client |-> qclient[q], outcome |-> qval[q]], "settle")
  /\ UNCHANGED qout

\* The promise __DI_simpleQuery returned (the end of the chain) settles.
SQ_Settle(q) ==
  /\ qpc[q] = "settle"
  /\ qpc' = [qpc EXCEPT ![q] = "done"]
  /\ qout' = [qout EXCEPT ![q] = qval[q]]
  /\ UNCHANGED <<poolVars, qconn, qclient, qval, qacq, qrel, qissued, sessVars, offVars>>

\* A series of queries run one after another with the simple method: when
\* the promise of one query() has settled, the caller calls query() again.
SQ_Again(q) ==
  /\ qpc[q] = "done"
  /\ qn[q] + 1 < MaxSeries
  /\ qn' = [qn EXCEPT ![q] = @ + 1]
  /\ qfailed' = [qfailed EXCEPT ![q] = @ \/ qout[q].kind = "rejected"]
  /\ qpc' = [qpc EXCEPT ![q] = "start"]
  /\ qconn' = [qconn EXCEPT ![q] = NoClient]
  /\ qclient' = [qclient EXCEPT ![q] = NoClient]
  /\ qval' = [qval EXCEPT ![q] = Pending]
  /\ qout' = [qout EXCEPT ![q] = Pending]
  /\ qacq' = [qacq EXCEPT ![q] = 0]
  /\ qrel' = [qrel EXCEPT ![q] = 0]
  /\ qissued' = [qissued EXCEPT ![q] = NoStmt]
  /\ UNCHANGED <<poolVars, sessVars, extVars, logVars>>

-----------------------------------------------------------------------------
(* Explicit-client path: a caller that follows the tutorial: getClient(),  *)
(* then operations on the client, then client.release() in .finally().     *)

Ops == {"query", "begin", "commit", "rollback"}

\* A variant in which every operation sends the caller's query text.
StmtTextNoTransaction(op) == "SQL"

\* The statement each operation hands to __makeClientQueryPromise.
StmtText(op) ==
  CASE op = "begin" -> "BEGIN"
    [] op = "commit" -> "COMMIT"
    [] op = "rollback" -> "ROLLBACK"
    [] OTHER -> "SQL"

\* __DI_queryWithClient: .then(function(result) { ...; return result; })
QueryWithClientThen(result) ==
  [release |-> FALSE, outcome |-> Resolved(result)]

\* A variant that releases the caller's client on a statement error.
QueryWithClientCatchReleases(err) ==
  [release |-> TRUE, outcome |-> Rejected(err)]

\* A variant that throws a new error with the driver's error as its cause.
QueryWithClientCatchWraps(err) ==
  [release |-> FALSE,
   outcome |-> Rejected([err EXCEPT !.name = "QueryError", !.cause = err.name])]

\* __DI_queryWithClient: .catch(function(err) { ...; throw err; })
QueryWithClientCatch(err) ==
  [release |-> FALSE, outcome |-> Rejected(err)]

\* A variant of beginTransaction that gives the client back once BEGIN settled.
BeginSettleReleases(st) ==
  [release |-> TRUE, outcome |-> st]

\* beginTransaction returns the __makeClientQueryPromise of "BEGIN" itself.
BeginSettle(st) ==
  [release |-> FALSE, outcome |-> st]

\* A variant that treats a failed COMMIT as rollbackTransaction treats ROLLBACK.
CommitSettleLikeRollback(st) ==
  IF st.kind = "rejected"
    THEN [release |-> TRUE, outcome |-> Resolved("undefined")]
    ELSE [release |-> FALSE, outcome |-> st]

\* commitTransaction returns the __makeClientQueryPromise of "COMMIT" itself.
CommitSettle(st) ==
  [release |-> FALSE, outcome |-> st]

\* A variant whose .catch swallows the error without releasing.
RollbackCatchNoRelease(err) ==
  [release |-> FALSE, outcome |-> Resolved("undefined")]

\* A variant whose .catch releases and re-raises.
RollbackCatchRethrows(err) ==
  [release |-> TRUE, outcome |-> Rejected(err)]

\* rollbackTransaction: .catch(function(err) { client.release(); })
RollbackCatch(err) ==
  [release |-> TRUE, outcome |-> Resolved("undefined")]

\* rollbackTransaction: a fulfilled "ROLLBACK" passes through the .catch.
RollbackSettle(st) ==
  IF st.kind = "rejected" THEN RollbackCatch(st.val)
  ELSE [release |-> FALSE, outcome |-> st]

\* What the operation's handlers make of the statement's outcome.
OpHandler(op, st) ==
  CASE op = "query" ->
         IF st.kind = "rejected" THEN QueryWithClientCatch(st.val)
         ELSE QueryWithClientThen(st.val)
    [] op = "begin" -> BeginSettle(st)
    [] op = "commit" -> CommitSettle(st)
    [] OTHER -> RollbackSettle(st)

\* The transaction state of client c after statement `text` answered `a`.
DirtyAfter(text, c, a) ==
  IF text = "ROLLBACK" /\ a.kind = "rejected" THEN [dirty EXCEPT ![c] = TRUE]
  ELSE IF text \in {"ROLLBACK", "COMMIT"} /\ a.kind = "resolved"
         THEN [dirty EXCEPT ![c] = FALSE]
  ELSE dirty

\* __DI_getClient: __pool.connect().then(function(client) { return client; })
S_GetClient(s) ==
  /\ spc[s] = "start"
  /\ \/ \E c \in Clients :
          /\ Lease(c, s)
          /\ spc' = [spc EXCEPT ![s] = "held"]
          /\ sclient' = [sclient EXCEPT ![s] = c]
     \/ /\ spc' = [spc EXCEPT ![s] = "done"]
        /\ UNCHANGED <<poolVars, sclient>>
  /\ UNCHANGED <<queryVars, sop, sstmt, sres, sops, srel, soprel, suse, sissued>>
  /\ UNCHANGED offVars

\* The caller invokes query(text, args, client), beginTransaction(client),
\* commitTransaction(client) or rollbackTransaction(client): each hands one
\* statement to client.query() through __makeClientQueryPromise.
S_CallStep(s, op) ==
  /\ spc[s] = "held"
  /\ sops[s] < MaxOps
  /\ sop' = [sop EXCEPT ![s] = op]
  /\ sops' = [sops EXCEPT ![s] = @ + 1]
  /\ soprel' = [soprel EXCEPT ![s] = 0]
  /\ sres' = [sres EXCEPT ![s] = Pending]
  /\ sissued' = [sissued EXCEPT ![s] = [text |-> StmtText(op), client |-> sclient[s]]]
  /\ suse' = [suse EXCEPT ![s] = @ \/ srel[s] > 0]
  /\ \/ /\ spc' = [spc EXCEPT ![s] = "stmt"]
        /\ sstmt' = [sstmt EXCEPT ![s] = Pending]
        /\ UNCHANGED dirty
     \/ /\ spc' = [spc EXCEPT ![s] = "handler"]
        /\ sstmt' = [sstmt EXCEPT ![s] = SyncThrow]
        /\ dirty' = DirtyAfter(StmtText(op), sclient[s], SyncThrow)
  /\ UNCHANGED <<owner, servedDirty, queryVars, sclient, srel>>
  /\ UNCHANGED <<extVars, serVars>>

S_Call(s, op) ==
  /\ S_CallStep(s, op)
  /\ UNCHANGED logVars

\* The same call with the trace recorded: new Promise(executor) runs the
\* executor at once, so client.query() gets the statement inside the call;
\* when client.query() throws, the client has not taken the statement.
S_CallTraced(s, op) ==
  /\ S_CallStep(s, op)
  /\ scalls' = [scalls EXCEPT ![s] =
                  Append(@, [op |-> op, received |-> spc'[s] = "stmt"])]
  /\ clog' = IF spc'[s] = "stmt"
               THEN [clog EXCEPT ![sissued'[s].client] =
                       Append(@, [from |-> s, text |-> sissued'[s].text])]
               ELSE clog

\* The driver calls back: function(err, result) { if (err) reject(err) else resolve(result) }
S_StmtDone(s) ==
  /\ spc[s] = "stmt"
  /\ \E a \in DriverAnswers :
       /\ sstmt' = [sstmt EXCEPT ![s] = a]
       /\ dirty' = DirtyAfter(sissued[s].text, sclient[s], a)
  /\ spc' = [spc EXCEPT ![s] = "handler"]
  /\ UNCHANGED <<owner, servedDirty, queryVars, sclient, sop, sres, sops, srel,
                 soprel, suse, sissued>>
  /\ UNCHANGED offVars

\* The operation's own handlers run and the promise it returned settles.
S_Handler(s) ==
  /\ spc[s] = "handler"
  /\ LET eff == OpHandler(sop[s], sstmt[s]) IN
       /\ sres' = [sres EXCEPT ![s] = eff.outcome]
       /\ IF eff.release
            THEN /\ owner' = PoolRelease(owner, sclient[s])
                 /\ srel' = [srel EXCEPT ![s] = @ + 1]
                 /\ soprel' = [soprel EXCEPT ![s] = @ + 1]
            ELSE UNCHANGED <<owner, srel, soprel>>
  /\ spc' = [spc EXCEPT ![s] = "held"]
  /\ UNCHANGED <<dirty, servedDirty, queryVars, sclient, sop, sstmt, sops, suse, sissued>>
  /\ UNCHANGED offVars

\* The caller's final step: .finally(() => { client.release(); })
S_Release(s) ==
  /\ spc[s] = "held"
  /\ owner' = PoolRelease(owner, sclient[s])
  /\ srel' = [srel EXCEPT ![s] = @ + 1]
  /\ spc' = [spc EXCEPT ![s] = "done"]
  /\ UNCHANGED <<dirty, servedDirty, queryVars, sclient, sop, sstmt, sres, sops,
                 soprel, suse, sissued>>
  /\ UNCHANGED offVars

-----------------------------------------------------------------------------
(* The registry of named connections: DatabaseConnection.getConnection.    *)
(* DatabaseConnection.__connections is a plain JavaScript object used as   *)
(* a map, so a name is a property key of an object whose prototype is      *)
(* Object.prototype.                                                       *)

Names == {"main", "__proto__", "hasOwnProperty"}
Modes == {"", "standalone", "asDependency"}
Overrides == {"none", "cfgA", "cfgB", "cfgNoConnection"}
Handles == 1 .. MaxCalls

\* The configuration files that exist: config/main.js under process.cwd().
ConfigFiles == {<<"main", "standalone">>}

NoRet == [kind |-> "none", name |-> "", val |-> 0, err |-> ""]
Returned(name, h) == [kind |-> "returned", name |-> name, val |-> h, err |-> ""]
Threw(name, e) == [kind |-> "threw", name |-> name, val |-> 0, err |-> e]
NoFirst == [h |-> 0, cfg |-> "none"]
NoCall == [name |-> "", mode |-> "", override |-> "none"]

\* if (!mode) { mode = 'asDependency'; }
DefaultMode(mode) == IF mode = "" THEN "asDependency" ELSE mode

\* __loadConnectionConfigFromFile: require(filename), or throw when it fails.
LoadConnectionConfigFromFile(name, mode) ==
  IF <<name, mode>> \in ConfigFiles THEN "file_" \o mode ELSE "notfound"

\* config.connection: the connection details __startPool gets; it sets
\* connectionDetails['Promise'], which throws a TypeError on undefined.
HasConnectionDetails(cfg) == cfg # "cfgNoConnection"

\* Object.prototype.hasOwnProperty on the registry: an assignment to the key
\* __proto__ sets the prototype and never creates an own property.
HasOwn(own, name) == name # "__proto__" /\ own[name] # 0

\* DatabaseConnection.__connections.hasOwnProperty is looked up on the
\* registry itself: an own property of that name (a connection object, not a
\* function) shadows Object.prototype.hasOwnProperty and the call throws.
HasOwnPropertyCallable(own) == own["hasOwnProperty"] = 0

\* DatabaseConnection.__connections[name] = h
SetOwn(own, name, h) == IF name = "__proto__" THEN own ELSE [own EXCEPT ![name] = h]
SetProto(proto, name, h) == IF name = "__proto__" THEN h ELSE proto

\* DatabaseConnection.__connections[name] (read after the name was stored)
GetProp(own, proto, name) == IF name = "__proto__" THEN proto ELSE own[name]

\* if (!DatabaseConnection.__connections.hasOwnProperty(name)): must a new
\* connection be created for this name?
MustCreate(own, name) == ~HasOwn(own, name)

\* if (configOverride) { config = configOverride } else { config = load... }
ResolveConfig(name, mode, override) ==
  IF override # "none" THEN override
  ELSE LoadConnectionConfigFromFile(name, DefaultMode(mode))

GetConnection(name, mode, override) ==
  /\ ncalls < MaxCalls
  /\ ncalls' = ncalls + 1
  /\ call' = [name |-> name, mode |-> mode, override |-> override]
  /\ LET cfg == ResolveConfig(name, mode, override)
         h == nHandles + 1
     IN
       IF ~HasOwnPropertyCallable(connOwn) THEN
         /\ ret' = Threw(name, "TypeError")
         /\ UNCHANGED <<connOwn, connProto, nHandles, hcfg, pools, first, rfailed>>
       ELSE IF ~MustCreate(connOwn, name) THEN
         /\ ret' = Returned(name, GetProp(connOwn, connProto, name))
         /\ UNCHANGED <<connOwn, connProto, nHandles, hcfg, pools, first, rfailed>>
       ELSE IF cfg = "notfound" THEN
         /\ ret' = Threw(name, "ConfigNotFound")
         /\ rfailed' = rfailed \cup {name}
         /\ UNCHANGED <<connOwn, connProto, nHandles, hcfg, pools, first>>
       ELSE IF ~HasConnectionDetails(cfg) THEN
         /\ ret' = Threw(name, "TypeError")
         /\ rfailed' = rfailed \cup {name}
         /\ UNCHANGED <<connOwn, connProto, nHandles, hcfg, pools, first>>
       ELSE
         \* dbc = new DatabaseConnection(name, config); dbc.__startPool(...);
         \* DatabaseConnection.__connections[name] = dbc;
         /\ nHandles' = h
         /\ hcfg' = [hcfg EXCEPT ![h] = cfg]
         /\ pools' = [pools EXCEPT ![name] = @ + 1]
         /\ connOwn' = SetOwn(connOwn, name, h)
         /\ connProto' = SetProto(connProto, name, h)
         /\ ret' = Returned(name, GetProp(connOwn', connProto', name))
         /\ first' = IF first[name].h = 0
                       THEN [first EXCEPT ![name] = [h |-> h, cfg |-> cfg]]
                       ELSE first
         /\ UNCHANGED rfailed
  /\ UNCHANGED <<dbVars, svcVars, callVars>>

\* configFromEnvSettings(envName) on a handle the caller got: it replaces
\* this.__config by the environment's file (when there is none it throws and
\* changes nothing, which is no step of the model).
ConfigFromEnvSettings(h) ==
  /\ h <= nHandles
  /\ hcfg[h] # "env"
  /\ hcfg' = [hcfg EXCEPT ![h] = "env"]
  /\ UNCHANGED <<connOwn, connProto, nHandles, pools, ncalls, ret, first, call, rfailed>>
  /\ UNCHANGED <<dbVars, svcVars, callVars>>

NextReg ==
  \/ \E name \in Names, mode \in Modes, override \in Overrides :
       GetConnection(name, mode, override)
  \/ \E h \in Handles : ConfigFromEnvSettings(h)

-----------------------------------------------------------------------------
(* runBasicService: __DI_runBasicService with the execution functions      *)
(* runBasicService passes it, squelQueryReturningOne and                   *)
(* squelQueryReturningMany. The caller's callbacks (fnValidate,            *)
(* fnSanitizeRequest, fnDbValidate, fnMakeQuery) can do anything a         *)
(* JavaScript function can: return, or throw.                              *)

OneOrMany == {"one", "many", "two"}
\* A callback field of the config: absent, a function, or some other value.
Callbacks == {"none", "fn", "notfn"}
Configs ==
  [oneOrMany : OneOrMany, fnSanitizeRequest : Callbacks, fnDbValidate : Callbacks,
   client : Clients \cup {NoClient}, doneClient : Clients \cup {NoClient}]
NoConfig ==
  [oneOrMany |-> "none", fnSanitizeRequest |-> "none", fnDbValidate |-> "none",
   client |-> NoClient, doneClient |-> NoClient]

\* config.req, and what fnSanitizeRequest(req) can do.
OriginalReq == "req"
SanitizeAnswers == {"sanitized", "undefined", "throws"}

\* The error codes fnValidate(req, errors) can push onto `errors`.
ErrorCodes == {"INVALID_ID", "MISSING_NAME"}
CodeSeqs == UNION {[1 .. n -> ErrorCodes] : n \in 0 .. MaxCodes}
\* fnValidate returns a truthy or a falsy value, or throws.
ValidateAnswers == [kind : {"true", "false", "throws"}, codes : CodeSeqs]

\* fnDbValidate(userData, req, client) returns a promise, or throws.
DbValidateAnswers == {"promise", "throws"}
\* fnMakeQuery(userData, req) returns a Squel query param object with or
\* without text, returns nothing, or throws.
MakeQueryAnswers == {"text", "empty", "undefined", "throws"}

\* Outcomes of runBasicService: the promise it returned, or an exception
\* thrown out of the call itself.
SvcPending == [kind |-> "pending", val |-> "none", hasErrors |-> FALSE, errors |-> <<>>]
SvcResolved(v) == [kind |-> "resolved", val |-> v, hasErrors |-> FALSE, errors |-> <<>>]
SvcRejected(e) == [kind |-> "rejected", val |-> e, hasErrors |-> FALSE, errors |-> <<>>]
SvcThrown(e) == [kind |-> "thrown", val |-> e, hasErrors |-> FALSE, errors |-> <<>>]

\* throw new Error('SERVER_REQUEST_ERROR');
ServerRequestError == SvcRejected("SERVER_REQUEST_ERROR")

\* A variant that loses the codes fnValidate pushed.
ValidationErrorNoCodes(errors) ==
  [kind |-> "rejected", val |-> "VALIDATION_ERROR", hasErrors |-> TRUE, errors |-> <<>>]

\* err = new Error('VALIDATION_ERROR'); err.__errors = errors; throw err;
ValidationError(errors) ==
  [kind |-> "rejected", val |-> "VALIDATION_ERROR", hasErrors |-> TRUE, errors |-> errors]

\* One call of a callback or of an execution function, as the log keeps it.
Invocation(fn, req, client, val) ==
  [fn |-> fn, req |-> req, client |-> client, val |-> val]

\* _.isFunction(f), for a field of the config
IsFunction(f) == f = "fn"

\* if (config.client) { client = config.client; }
\* else if (config.configWithDone) { client = config.configWithDone.client; }
PickClient(cfg) == IF cfg.client # NoClient THEN cfg.client ELSE cfg.doneClient

\* A variant that runs every valid mode through the one-row function.
PickQueryAlwaysOne(oneOrMany) ==
  IF oneOrMany \in {"one", "many"} THEN "one" ELSE "none"

\* if (oneOrMany === 'one') { fnQuery = One } else if (oneOrMany === 'many') { fnQuery = Many }
PickQuery(oneOrMany) ==
  IF oneOrMany = "one" THEN "one"
  ELSE IF oneOrMany = "many" THEN "many"
  ELSE "none"

\* A variant without the mode check.
ModeNeverRejects(fnQuery) == FALSE

\* if (!fnQuery) { return Promise.resolve({}).then(function() { throw ... }) }
ModeRejects(fnQuery) == fnQuery = "none"

\* A variant that hands the original request on.
SanitizedRequestIgnored(cfg, req, sanitized) == req

\* if (fnSanitizeRequest && _.isFunction(fnSanitizeRequest)) { req = fnSanitizeRequest(req); }
SanitizedRequest(cfg, req, sanitized) ==
  IF IsFunction(cfg.fnSanitizeRequest) THEN sanitized ELSE req

\* The synchronous part of __DI_runBasicService, given what the callbacks
\* answer: where the call stands when it returns (or throws).
RunBasicServiceSync(cfg, fv, sv, dv) ==
  LET client == PickClient(cfg)
      sanitizes == IsFunction(cfg.fnSanitizeRequest)
      \* if (!fnDbValidate || !_.isFunction(fnDbValidate)) { fnDbValidate = <resolves {}> }
      dbv == IF IsFunction(cfg.fnDbValidate) THEN dv ELSE "promise"
      req2 == SanitizedRequest(cfg, OriginalReq, sv)
      logV == <<Invocation("fnValidate", OriginalReq, NoClient, fv.kind)>>
      logS == IF sanitizes
                THEN Append(logV, Invocation("fnSanitizeRequest", OriginalReq, NoClient, sv))
                ELSE logV
      logD == Append(logS, Invocation("fnDbValidate", req2, client, dbv))
      base == [pc |-> "tick", valid |-> "none", errors |-> <<>>, req |-> OriginalReq,
               log |-> <<>>, out |-> SvcPending, dbv |-> "none"]
  IN
    IF ModeRejects(PickQuery(cfg.oneOrMany)) THEN base
    ELSE IF fv.kind = "throws" THEN
      [base EXCEPT !.pc = "done", !.valid = "threw", !.errors = fv.codes,
                   !.log = logV, !.out = SvcThrown("VALIDATE_THROWN")]
    ELSE IF fv.kind = "false" THEN
      [base EXCEPT !.valid = "false", !.errors = fv.codes, !.log = logV]
    ELSE IF sanitizes /\ sv = "throws" THEN
      [base EXCEPT !.pc = "done", !.valid = "true", !.errors = fv.codes,
                   !.log = logS, !.out = SvcThrown("SANITIZE_THROWN")]
    ELSE IF dbv = "throws" THEN
      [base EXCEPT !.pc = "done", !.valid = "true", !.errors = fv.codes, !.req = req2,
                   !.log = logD, !.out = SvcThrown("DBVALIDATE_THROWN")]
    ELSE
      [base EXCEPT !.pc = "dbv", !.valid = "true", !.errors = fv.codes, !.req = req2,
                   !.log = logD, !.dbv = "pending"]

\* runBasicService(config): everything up to the return of the call.
RBS_Call(cfg) ==
  /\ vpc = "idle"
  /\ vcfg' = cfg
  /\ \E fv \in ValidateAnswers, sv \in SanitizeAnswers, dv \in DbValidateAnswers :
       LET r == RunBasicServiceSync(cfg, fv, sv, dv) IN
         /\ vpc' = r.pc
         /\ vvalid' = r.valid
         /\ verrors' = r.errors
         /\ vreq' = r.req
         /\ vlog' = r.log
         /\ vout' = r.out
         /\ vdbv' = r.dbv
  /\ UNCHANGED <<vq, vpath, vacq, vrel, vstmt>>
  /\ UNCHANGED <<dbVars, regVars, callVars>>

\* Promise.resolve({}).then(function() { throw ... }): the callback runs.
RBS_Tick ==
  /\ vpc = "tick"
  /\ vpc' = "done"
  /\ vout' = IF vvalid = "false" THEN ValidationError(verrors) ELSE ServerRequestError
  /\ UNCHANGED <<vcfg, vvalid, verrors, vreq, vlog, vdbv, vq, vpath, vacq, vrel, vstmt>>
  /\ UNCHANGED <<dbVars, regVars, callVars>>

\* A variant that runs the .then callback whatever became of the promise.
AfterDbValidateAlways(st) == "then"

\* fnDbValidate(...).then(function() { ... }): the callback runs when the
\* promise is fulfilled; a rejection passes to the promise returned.
AfterDbValidate(st) == IF st = "resolved" THEN "then" ELSE "done"

\* A variant that reports a rejection of fnDbValidate as a server error.
ThenPassesRejectionAsServerError(err) == SvcRejected("SERVER_REQUEST_ERROR")

\* promise.then(onFulfilled) with no rejection handler: the promise returned
\* is rejected with the reason the first one was rejected with.
ThenPassesRejection(err) == SvcRejected(err)

\* The promise fnDbValidate returned settles (the default one is fulfilled).
RBS_DbValidateSettles ==
  /\ vpc = "dbv"
  /\ \E st \in IF IsFunction(vcfg.fnDbValidate) THEN {"resolved", "rejected"}
                                                ELSE {"resolved"} :
       /\ vdbv' = st
       /\ vpc' = AfterDbValidate(st)
       /\ vout' = IF AfterDbValidate(st) = "done"
                    THEN ThenPassesRejection("DBVALIDATE_REJECTED")
                    ELSE vout
  /\ UNCHANGED <<vcfg, vvalid, verrors, vreq, vlog, vq, vpath, vacq, vrel, vstmt>>
  /\ UNCHANGED <<dbVars, regVars, callVars>>

\* A variant of query() that takes the managed path whatever it is given.
QueryDispatchAlwaysManaged(client) == "managed"

\* A variant that takes the branches of `if (client)` the other way round.
QueryDispatchSwapped(client) == IF client # NoClient THEN "managed" ELSE "withClient"

\* __DI_query: if (client) { queryWithClient } else { queryWithoutClient }
QueryDispatch(client) == IF client # NoClient THEN "withClient" ELSE "managed"

\* __DI_squelQuery: q.text of no object throws; without text it resolves []
\* and asks the database nothing; else it calls query(text, values, client).
SquelQueryPath(q, client) ==
  IF q = "undefined" THEN "throws"
  ELSE IF q = "empty" THEN "nodb"
  ELSE QueryDispatch(client)

\* squelQueryReturningMany: .then(turnQueryResultIntoRows)
SquelQueryReturningManyResult(r) == IF r = "OK" THEN "rows" ELSE "[]"

\* squelQueryReturningOne: then .then(turnRowsIntoSingleResult)
SquelQueryReturningOneResult(r) == IF r = "OK" THEN "row" ELSE "{}"

SquelResult(fnQuery, r) ==
  IF fnQuery = "one" THEN SquelQueryReturningOneResult(r)
  ELSE SquelQueryReturningManyResult(r)

ExecName(fnQuery) ==
  IF fnQuery = "one" THEN "squelQueryReturningOne" ELSE "squelQueryReturningMany"

\* .then(function() { return fnQuery(fnMakeQuery(userData, req), client); })
RBS_Then ==
  /\ vpc = "then"
  /\ \E mq \in MakeQueryAnswers :
       LET fnQuery == PickQuery(vcfg.oneOrMany)
           client == PickClient(vcfg)
           logM == Append(vlog, Invocation("fnMakeQuery", vreq, NoClient, mq))
           logE == Append(logM, Invocation(ExecName(fnQuery), "none", client, mq))
           path == SquelQueryPath(mq, client)
       IN
         IF mq = "throws" THEN
           /\ vlog' = logM
           /\ vpc' = "done"
           /\ vout' = SvcRejected("MAKEQUERY_THROWN")
           /\ UNCHANGED <<vq, vpath, vstmt>>
         ELSE IF fnQuery = "none" \/ path = "throws" THEN
           \* calling no function, or reading q.text of no object: a TypeError
           /\ vlog' = IF fnQuery = "none" THEN logM ELSE logE
           /\ vpc' = "done"
           /\ vout' = SvcRejected("TypeError")
           /\ vq' = mq
           /\ UNCHANGED <<vpath, vstmt>>
         ELSE
           /\ vlog' = logE
           /\ vpc' = "exec"
           /\ vq' = mq
           /\ vpath' = path
           /\ vstmt' = IF path = "withClient" THEN [text |-> "SQL", client |-> client]
                                              ELSE vstmt
           /\ UNCHANGED vout
  /\ UNCHANGED <<vcfg, vvalid, verrors, vreq, vdbv, vacq, vrel>>
  /\ UNCHANGED <<dbVars, regVars, callVars>>

\* What the managed path (__DI_simpleQuery) does for one query: it acquires
\* a client unless connect() fails, and releases what it acquired.
ManagedAnswers ==
  {[acq |-> 0, rel |-> 0, answer |-> Rejected("PG_ERROR")]}
    \cup {[acq |-> 1, rel |-> 1, answer |-> a] : a \in DriverAnswers}

\* A variant that wraps the error of the execution step in an error of
\* its own.
ExecSettleWrapsError(fnQuery, a) ==
  IF a.kind = "resolved" THEN SvcResolved(SquelResult(fnQuery, a.val))
                         ELSE SvcRejected("QueryError(" \o a.val \o ")")

\* How the promise of the execution function settles from the settlement
\* of query: the .then callbacks project a result, and there is no
\* rejection callback, so an error passes through as it is.
ExecSettle(fnQuery, a) ==
  IF a.kind = "resolved" THEN SvcResolved(SquelResult(fnQuery, a.val))
                         ELSE SvcRejected(a.val)

\* The promise of the execution function settles, and with it the promise
\* runBasicService returned.
RBS_ExecSettles ==
  /\ vpc = "exec"
  /\ vpc' = "done"
  /\ LET fnQuery == PickQuery(vcfg.oneOrMany)
         settle(a) == ExecSettle(fnQuery, a)
     IN
       CASE vpath = "nodb" ->
              /\ vout' = settle(Resolved("[]"))
              /\ UNCHANGED <<vacq, vrel, vstmt>>
         [] vpath = "withClient" ->
              /\ \E a \in DriverAnswers : vout' = settle(a)
              /\ UNCHANGED <<vacq, vrel, vstmt>>
         [] OTHER ->
              \E m \in ManagedAnswers, c \in Clients :
                /\ vout' = settle(m.answer)
                /\ vacq' = vacq + m.acq
                /\ vrel' = vrel + m.rel
                /\ vstmt' = IF m.acq = 1 THEN [text |-> "SQL", client |-> c] ELSE vstmt
  /\ UNCHANGED <<vcfg, vvalid, verrors, vreq, vlog, vdbv, vq, vpath>>
  /\ UNCHANGED <<dbVars, regVars, callVars>>

NextSvc ==
  \/ \E cfg \in Configs : RBS_Call(cfg)
  \/ RBS_Tick
  \/ RBS_DbValidateSettles
  \/ RBS_Then
  \/ RBS_ExecSettles

-----------------------------------------------------------------------------
-----------------------------------------------------------------------------
(* One call of query, queryReturningMany, queryReturningOne or of a          *)
(* transaction primitive, observed through the steps it makes on the pool  *)
(* and on the driver. The call is run twice against the same pool and      *)
(* driver behaviour: run FALSE with config.verbose unset and run TRUE with *)
(* config.verbose set.                                                     *)

\* JavaScript values: t is the type; for an object, `has` says that it has
\* an own property `rows`, rowsT is the type of that property and items the
\* ids of the rows of an array; id is the property `id` of a row {id: i};
\* name is the message of an error, the command of a result or a string.
JsVal(t) ==
  [t |-> t, has |-> FALSE, rowsT |-> "undefined", items |-> <<>>, id |-> 0,
   name |-> "", cause |-> ""]
JsUndefined == JsVal("undefined")
JsNull == JsVal("null")
JsObject == JsVal("object")                                \* {}
JsRow(i) == [JsVal("object") EXCEPT !.id = i]              \* {id: i}
JsArray(s) == [JsVal("array") EXCEPT !.items = s]          \* [{id: s[1]}, ...]
JsString(x) == [JsVal("string") EXCEPT !.name = x]
JsError(msg) == [JsVal("error") EXCEPT !.name = msg]       \* new Error(msg)
JsClient(c) == [JsVal("client") EXCEPT !.id = c]
\* {rows: <a value of type rowsT>, ...}
JsResult(rowsT, s) == [JsVal("object") EXCEPT !.has = TRUE, !.rowsT = rowsT, !.items = s]
\* A result that carries only metadata of the driver: {command: 'BEGIN'}
JsMetadataOnly == [JsVal("object") EXCEPT !.name = "BEGIN"]

RowSeqs == UNION {[1 .. n -> 1 .. MaxRowId] : n \in 0 .. MaxRows}

\* What the driver can pass to callback(null, result): the results of pg
\* (an object with an array `rows`), the result 'OK' of the mock driver
\* of the tests, and results that are not well formed: one whose `rows` is
\* null, one without `rows`, and no result at all.
Results ==
  {JsResult("array", s) : s \in RowSeqs}
    \cup {JsResult("null", <<>>), JsObject, JsMetadataOnly, JsString("OK"), JsUndefined}

\* _.has(queryResult, 'rows')
HasRows(queryResult) == queryResult.t = "object" /\ queryResult.has

\* queryResult.rows
RowsField(queryResult) ==
  IF queryResult.rowsT = "array" THEN JsArray(queryResult.items)
  ELSE JsVal(queryResult.rowsT)

\* if (_.has(queryResult, 'rows')) return queryResult.rows; else return [];
TurnQueryResultIntoRows(queryResult) ==
  IF HasRows(queryResult) THEN RowsField(queryResult) ELSE JsArray(<<>>)

\* `rows && rows.length > 0`, for an array, null or undefined
RowsNotEmpty(rows) ==
  /\ rows.t \notin {"null", "undefined"}
  /\ rows.t = "array" /\ Len(rows.items) > 0

\* A variant without the default for no row.
TurnRowsIntoSingleResultNoDefault(rows) ==
  IF RowsNotEmpty(rows) THEN JsRow(rows.items[1]) ELSE JsUndefined

\* if (rows && rows.length > 0) return rows[0]; else return {};
TurnRowsIntoSingleResult(rows) ==
  IF RowsNotEmpty(rows) THEN JsRow(rows.items[1]) ELSE JsObject

QueryFns == {"query", "queryReturningMany", "queryReturningOne"}
SquelFns == {"squelQuery", "squelQueryReturningMany", "squelQueryReturningOne"}
TxFns == {"beginTransaction", "commitTransaction", "rollbackTransaction"}

\* The operation of the explicit-client path a function runs.
WOp(fn) ==
  CASE fn = "beginTransaction" -> "begin"
    [] fn = "commitTransaction" -> "commit"
    [] fn = "rollbackTransaction" -> "rollback"
    [] OTHER -> "query"

\* A variant in which queryReturningOne stops at the rows.
ProjectionsOneLikeMany(fn) ==
  IF fn \in {"queryReturningMany", "queryReturningOne", "squelQueryReturningMany",
             "squelQueryReturningOne"}
    THEN <<"rows">> ELSE <<>>

\* The .then callbacks a function adds to the promise of query() or of
\* squelQuery(): the ...ReturningMany functions add turnQueryResultIntoRows,
\* the ...ReturningOne functions add turnQueryResultIntoRows and then
\* turnRowsIntoSingleResult.
Projections(fn) ==
  CASE fn \in {"queryReturningMany", "squelQueryReturningMany"} -> <<"rows">>
    [] fn \in {"queryReturningOne", "squelQueryReturningOne"} -> <<"rows", "single">>
    [] OTHER -> <<>>

\* The position of the chain after the first k of those callbacks.
ProjectionAfter(fn, k) ==
  IF k < Len(Projections(fn)) THEN Projections(fn)[k + 1] ELSE "settle"

\* The answers of the driver to one statement.
WAnswers == {Resolved(v) : v \in Results} \cup {Rejected(JsError("CLIENT_ERROR"))}
WThrown == Rejected(JsError("THROWN"))

\* The texts of a query: for a compiled query q of squel, q.text may be
\* the empty string or missing.
Texts == {"SQL", "", "undefined"}

\* A call and its environment: the function called, the text, the client
\* and the args (for a compiled query: q.text and q.values) the caller
\* passed, whether pool.connect() resolves and with which client, whether
\* client.query() throws, and what the driver answers.
Envs ==
  {e \in [fn : QueryFns \cup TxFns \cup SquelFns, text : Texts,
          client : Clients \cup {NoClient},
          args : {"undefined", "args"}, connects : BOOLEAN, pooled : Clients,
          throws : BOOLEAN, answer : WAnswers] :
     /\ e.fn \in TxFns => (e.client # NoClient /\ e.args = "undefined")
     /\ e.fn \notin SquelFns => e.text = "SQL"
     /\ e.text # "SQL" => (e.connects /\ ~e.throws /\ e.answer = Resolved(JsUndefined))
     /\ e.client # NoClient => (e.connects /\ e.pooled = e.client)
     /\ ~e.connects => ~e.throws
     /\ (~e.connects \/ e.throws) => e.answer = Resolved(JsUndefined)}

NoEnv ==
  [fn |-> "none", text |-> "SQL", client |-> NoClient, args |-> "undefined", connects |-> TRUE,
   pooled |-> NoClient, throws |-> FALSE, answer |-> Resolved(JsUndefined)]

\* The two runs, named by the verbose flag of their connection's config.
Runs == BOOLEAN

\* var debug = __config.verbose || false;
Debug(r) == r

\* A step of a call on the pool or on the driver.
WStep(step, client, text, args) ==
  [step |-> step, client |-> client, text |-> text, args |-> args]

\* A variant that defaults the args only when it does not log.
QueryArgsUnlessDebug(debug, args) ==
  IF debug THEN args ELSE IF args = "undefined" THEN "[]" ELSE args

\* if (!args) { args = []; } else if (debug) { console.log('With args:\n', args); }
QueryArgs(debug, args) == IF args = "undefined" THEN "[]" ELSE args

\* The console calls made before the statement is issued:
\* if (debug) console.log('Executing query: ...'), and the args if given.
ConsoleBefore(debug, args) ==
  IF ~debug THEN 0 ELSE IF args = "undefined" THEN 1 ELSE 2

\* if (debug) { console.log('Query returned:'); console.log(result); }
ConsoleResult(debug) == IF debug THEN 2 ELSE 0

\* if (debug) console.error('Error with query:\n', err);
ConsoleError(debug) == IF debug THEN 1 ELSE 0

\* __DI_queryWithClient: if (debug) console.log('Query returned:\n', result);
ConsoleResultWithClient(debug) == IF debug THEN 1 ELSE 0

\* .then(function(c) { client = c; ...; return self.__makeClientQueryPromise(...); }):
\* the callback keeps the client and returns the promise of the statement.
SimpleQueryThenClient(c) ==
  [release |-> FALSE, client |-> c, outcome |-> Pending]

\* The caller starts the call; both runs get the same call.
W_Start(env) ==
  /\ wenv.fn = "none"
  /\ wenv' = env
  /\ wpc' = [r \in Runs |-> "call"]
  /\ UNCHANGED <<wclient, wval, wtrace, wconsole, wimpl, wquery, wout>>
  /\ UNCHANGED <<dbVars, regVars, svcVars>>

\* A variant of __DI_squelQuery that passes q.values on as they are.
SquelArgsAsGiven(values) == values

\* __DI_squelQuery: var args = q.values; if (!args) args = [];
SquelArgs(values) == IF values = "undefined" THEN "[]" ELSE values

\* A variant of __DI_squelQuery that calls query whatever the text is.
SquelHasTextAlways(text) == TRUE

\* __DI_squelQuery: if (!queryStr) { return Promise.resolve([]); } else { query }
SquelHasText(text) == text \notin {"", "undefined"}

\* The args query() receives: the caller's, or those __DI_squelQuery passes.
QueryCallArgs == IF wenv.fn \in SquelFns THEN SquelArgs(wenv.args) ELSE wenv.args

\* Run r is at a call of query(): the caller's own, or that of __DI_squelQuery.
AtQuery(r) == (wpc[r] = "call" /\ wenv.fn \in QueryFns) \/ wpc[r] = "dispatch"

\* One call of query(queryString, args, client), as query receives it.
QueryCall(text, args, client) == [text |-> text, args |-> args, client |-> client]

\* squelQuery(q, client): without a text it returns Promise.resolve([]),
\* with one it calls query(q.text, args, client).
W_Squel(r) ==
  /\ wpc[r] = "call"
  /\ wenv.fn \in SquelFns
  /\ IF SquelHasText(wenv.text)
       THEN /\ wpc' = [wpc EXCEPT ![r] = "dispatch"]
            /\ UNCHANGED wval
       ELSE /\ wpc' = [wpc EXCEPT ![r] = ProjectionAfter(wenv.fn, 0)]
            /\ wval' = [wval EXCEPT ![r] = Resolved(JsArray(<<>>))]
  /\ UNCHANGED <<wenv, wclient, wtrace, wconsole, wimpl, wquery, wout>>
  /\ UNCHANGED <<dbVars, regVars, svcVars>>

\* The statement handed to client.query() inside __makeClientQueryPromise:
\* the driver takes it, or client.query() throws and the promise rejects.
W_Issue(r, client, text, args, onDriver, onThrow) ==
  /\ wtrace' = [wtrace EXCEPT ![r] = Append(@, WStep("execute", client, text, args))]
  /\ IF wenv.throws
       THEN /\ wpc' = [wpc EXCEPT ![r] = onThrow]
            /\ wval' = [wval EXCEPT ![r] = WThrown]
       ELSE /\ wpc' = [wpc EXCEPT ![r] = onDriver]
            /\ UNCHANGED wval

\* query() without a client: __DI_query calls __simpleQuery, which calls
\* __pool.connect() and builds the chain.
W_CallManaged(r) ==
  /\ AtQuery(r)
  /\ QueryDispatch(wenv.client) = "managed"
  /\ wquery' = [wquery EXCEPT ![r] = Append(@, QueryCall(wenv.text, QueryCallArgs, wenv.client))]
  /\ wimpl' = [wimpl EXCEPT ![r] = Append(@, "managed")]
  /\ wpc' = [wpc EXCEPT ![r] = "connect"]
  /\ UNCHANGED <<wenv, wclient, wval, wtrace, wconsole, wout>>
  /\ UNCHANGED <<dbVars, regVars, svcVars>>

\* query() with a client: __DI_query calls __queryWithClient, which logs,
\* defaults the args and hands the statement to the client.
W_CallWithClient(r) ==
  /\ AtQuery(r)
  /\ QueryDispatch(wenv.client) = "withClient"
  /\ wquery' = [wquery EXCEPT ![r] = Append(@, QueryCall(wenv.text, QueryCallArgs, wenv.client))]
  /\ wimpl' = [wimpl EXCEPT ![r] = Append(@, "withClient")]
  /\ wconsole' = [wconsole EXCEPT ![r] = @ + ConsoleBefore(Debug(r), QueryCallArgs)]
  /\ W_Issue(r, wenv.client, wenv.text, QueryArgs(Debug(r), QueryCallArgs),
             "stmt", "handler")
  /\ UNCHANGED <<wenv, wclient, wout>>
  /\ UNCHANGED <<dbVars, regVars, svcVars>>

\* beginTransaction(client), commitTransaction(client), rollbackTransaction(client)
W_CallTransaction(r) ==
  /\ wpc[r] = "call"
  /\ wenv.fn \in TxFns
  /\ W_Issue(r, wenv.client, StmtText(WOp(wenv.fn)), "[]", "stmt", "handler")
  /\ UNCHANGED <<wenv, wquery, wclient, wconsole, wimpl, wout>>
  /\ UNCHANGED <<dbVars, regVars, svcVars>>

\* __pool.connect() settles.
W_Connect(r) ==
  /\ wpc[r] = "connect"
  /\ IF wenv.connects
       THEN /\ wtrace' = [wtrace EXCEPT ![r] = Append(@, WStep("acquire", wenv.pooled, "", ""))]
            /\ wval' = [wval EXCEPT ![r] = Resolved(JsClient(wenv.pooled))]
            /\ wpc' = [wpc EXCEPT ![r] = "then1"]
       ELSE /\ wval' = [wval EXCEPT ![r] = Rejected(JsError("PG_ERROR"))]
            /\ wpc' = [wpc EXCEPT ![r] = "catch"]
            /\ UNCHANGED wtrace
  /\ UNCHANGED <<wenv, wquery, wclient, wconsole, wimpl, wout>>
  /\ UNCHANGED <<dbVars, regVars, svcVars>>

\* A callback of the chain of __DI_simpleQuery has run: it released the
\* client or not, it left the closure variable as eff.client, and it
\* returned a value, threw, or returned the promise of a statement it
\* handed to the driver (which the chain then waits for).
W_Apply(r, eff, next) ==
  /\ wclient' = [wclient EXCEPT ![r] = eff.client]
  /\ LET released == IF eff.release
                       THEN Append(wtrace[r], WStep("release", wclient[r], "", ""))
                       ELSE wtrace[r]
     IN
       IF eff.outcome.kind = "pending"
         THEN /\ wtrace' = [wtrace EXCEPT ![r] =
                   Append(released, WStep("execute", eff.client, wenv.text,
                                          QueryArgs(Debug(r), QueryCallArgs)))]
              /\ IF wenv.throws
                   THEN /\ wpc' = [wpc EXCEPT ![r] = "catch"]
                        /\ wval' = [wval EXCEPT ![r] = WThrown]
                   ELSE /\ wpc' = [wpc EXCEPT ![r] = "query"]
                        /\ UNCHANGED wval
         ELSE /\ wtrace' = [wtrace EXCEPT ![r] = released]
              /\ wpc' = [wpc EXCEPT ![r] = next]
              /\ wval' = [wval EXCEPT ![r] = eff.outcome]
  /\ UNCHANGED <<wenv, wquery, wimpl, wout>>
  /\ UNCHANGED <<dbVars, regVars, svcVars>>

W_Then1(r) ==
  /\ wpc[r] = "then1"
  /\ wconsole' = [wconsole EXCEPT ![r] = @ + ConsoleBefore(Debug(r), QueryCallArgs)]
  /\ W_Apply(r, SimpleQueryThenClient(wval[r].val.id), "query")

\* The driver calls back: function(err, result) { if (err) reject(err) else resolve(result) }
W_QueryDone(r) ==
  /\ wpc[r] = "query"
  /\ wval' = [wval EXCEPT ![r] = wenv.answer]
  /\ wpc' = [wpc EXCEPT ![r] = IF wenv.answer.kind = "resolved" THEN "then2" ELSE "catch"]
  /\ UNCHANGED <<wenv, wquery, wclient, wtrace, wconsole, wimpl, wout>>
  /\ UNCHANGED <<dbVars, regVars, svcVars>>

W_Then2(r) ==
  /\ wpc[r] = "then2"
  /\ wconsole' = [wconsole EXCEPT ![r] = @ + ConsoleResult(Debug(r))]
  /\ W_Apply(r, SimpleQueryThen(wclient[r], wval[r].val), "finally")

W_Catch(r) ==
  /\ wpc[r] = "catch"
  /\ wconsole' = [wconsole EXCEPT ![r] = @ + ConsoleError(Debug(r))]
  /\ W_Apply(r, SimpleQueryCatch(wclient[r], wval[r].val), "finally")

\* .finally runs its callback and passes the outcome through; this is the
\* end of the chain of __DI_simpleQuery.
W_Finally(r) ==
  /\ wpc[r] = "finally"
  /\ W_Apply(r, [release |-> SimpleQueryFinally(wclient[r]).release,
                 client |-> wclient[r], outcome |-> wval[r]],
             ProjectionAfter(wenv.fn, 0))
  /\ UNCHANGED wconsole

\* The driver calls back on the explicit-client path.
W_StmtDone(r) ==
  /\ wpc[r] = "stmt"
  /\ wval' = [wval EXCEPT ![r] = wenv.answer]
  /\ wpc' = [wpc EXCEPT ![r] = "handler"]
  /\ UNCHANGED <<wenv, wquery, wclient, wtrace, wconsole, wimpl, wout>>
  /\ UNCHANGED <<dbVars, regVars, svcVars>>

\* The callbacks of __DI_queryWithClient or of the transaction primitive run.
W_Handler(r) ==
  /\ wpc[r] = "handler"
  /\ LET eff == OpHandler(WOp(wenv.fn), wval[r]) IN
       /\ wval' = [wval EXCEPT ![r] = eff.outcome]
       /\ wtrace' = [wtrace EXCEPT ![r] =
            IF eff.release THEN Append(@, WStep("release", wenv.client, "", "")) ELSE @]
  /\ wconsole' = [wconsole EXCEPT ![r] =
       IF wenv.fn \in TxFns THEN @
       ELSE IF wval[r].kind = "resolved" THEN @ + ConsoleResultWithClient(Debug(r))
       ELSE @ + ConsoleError(Debug(r))]
  /\ wpc' = [wpc EXCEPT ![r] = ProjectionAfter(wenv.fn, 0)]
  /\ UNCHANGED <<wenv, wquery, wclient, wimpl, wout>>
  /\ UNCHANGED <<dbVars, regVars, svcVars>>

\* A .then(callback) without a rejection callback: the callback maps a
\* fulfilled value, a rejection passes through.
ThenMap(outcome, mapped) ==
  IF outcome.kind = "resolved" THEN Resolved(mapped) ELSE outcome

\* .then(this.turnQueryResultIntoRows.bind(this))
W_Rows(r) ==
  /\ wpc[r] = "rows"
  /\ wval' = [wval EXCEPT ![r] = ThenMap(@, TurnQueryResultIntoRows(@.val))]
  /\ wpc' = [wpc EXCEPT ![r] = ProjectionAfter(wenv.fn, 1)]
  /\ UNCHANGED <<wenv, wquery, wclient, wtrace, wconsole, wimpl, wout>>
  /\ UNCHANGED <<dbVars, regVars, svcVars>>

\* .then(this.turnRowsIntoSingleResult.bind(this))
W_Single(r) ==
  /\ wpc[r] = "single"
  /\ wval' = [wval EXCEPT ![r] = ThenMap(@, TurnRowsIntoSingleResult(@.val))]
  /\ wpc' = [wpc EXCEPT ![r] = ProjectionAfter(wenv.fn, 2)]
  /\ UNCHANGED <<wenv, wquery, wclient, wtrace, wconsole, wimpl, wout>>
  /\ UNCHANGED <<dbVars, regVars, svcVars>>

\* The promise the call returned settles.
W_Settle(r) ==
  /\ wpc[r] = "settle"
  /\ wout' = [wout EXCEPT ![r] = wval[r]]
  /\ wpc' = [wpc EXCEPT ![r] = "done"]
  /\ UNCHANGED <<wenv, wquery, wclient, wval, wtrace, wconsole, wimpl>>
  /\ UNCHANGED <<dbVars, regVars, svcVars>>

NextCall ==
  \/ \E env \in Envs : W_Start(env)
  \/ \E r \in Runs : W_Squel(r)
  \/ \E r \in Runs : W_CallManaged(r)
  \/ \E r \in Runs : W_CallWithClient(r)
  \/ \E r \in Runs : W_CallTransaction(r)
  \/ \E r \in Runs : W_Connect(r)
  \/ \E r \in Runs : W_Then1(r)
  \/ \E r \in Runs : W_QueryDone(r)
  \/ \E r \in Runs : W_Then2(r)
  \/ \E r \in Runs : W_Catch(r)
  \/ \E r \in Runs : W_Finally(r)
  \/ \E r \in Runs : W_StmtDone(r)
  \/ \E r \in Runs : W_Handler(r)
  \/ \E r \in Runs : W_Rows(r)
  \/ \E r \in Runs : W_Single(r)
  \/ \E r \in Runs : W_Settle(r)

-----------------------------------------------------------------------------
(* The 'error' events of the pool and of its clients, and the two handlers *)
(* __startPool registers for them.                                         *)

\* What a handler does: the console lines it writes, and whether it gives
\* the client back to the pool.
FaultEffect(lines, release) == [lines |-> lines, release |-> release]

\* A variant whose handler gives the failing client back to the pool.
ClientErrorHandlerReleases(c) == FaultEffect(2, TRUE)

\* client.on('error', function(err) { console.log(... client.processID);
\*                                    console.error(err); })
ClientErrorHandler(c) == FaultEffect(2, FALSE)

\* pool.on('error', function(err, client) { console.error(...); })
PoolErrorHandler(c) == FaultEffect(1, FALSE)

FaultLogged(handler, c, lines) == [handler |-> handler, client |-> c, lines |-> lines]

\* __startPool has run: the pool exists and the handlers are registered.
PoolStarted == pools["main"] > 0

\* The application gets its connection: the first getConnection('main').
F_GetConnection ==
  /\ ~PoolStarted
  /\ GetConnection("main", "standalone", "none")

\* A managed query of the application on the started pool.
F_Connect(q) ==
  /\ PoolStarted
  /\ SQ_Connect(q)

\* The event loop runs a handler for one event.
F_Deliver(handler, c, eff) ==
  /\ PoolStarted
  /\ Len(flog) < MaxFaults
  /\ flog' = Append(flog, FaultLogged(handler, c, eff.lines))
  /\ owner' = IF eff.release THEN PoolRelease(owner, c) ELSE owner
  /\ UNCHANGED <<dirty, servedDirty, queryVars, sessVars, serVars, logVars>>
  /\ UNCHANGED <<regVars, svcVars, callVars, nameVars>>

\* A client that is leased, with or without a statement in flight, emits
\* 'error'.
F_ClientError(c) ==
  /\ owner[c] # NoOne
  /\ F_Deliver("client", c, ClientErrorHandler(c))

\* An idle client of the pool fails and the pool emits 'error'.
F_IdleClientError(c) ==
  /\ owner[c] = NoOne
  /\ F_Deliver("pool", c, PoolErrorHandler(c))

NextFault ==
  \/ F_GetConnection
  \/ \E q \in Queries : F_Connect(q)
  \/ \E q \in Queries : SQ_Then1(q)
  \/ \E q \in Queries : SQ_QueryDone(q)
  \/ \E q \in Queries : SQ_Then2(q)
  \/ \E q \in Queries : SQ_Catch(q)
  \/ \E q \in Queries : SQ_Finally(q)
  \/ \E q \in Queries : SQ_Settle(q)
  \/ \E c \in Clients : F_ClientError(c)
  \/ \E c \in Clients : F_IdleClientError(c)

-----------------------------------------------------------------------------
(* databaseUtil: the name conversions and genWhereLikePrefixConditions.    *)
(* A string is the sequence of its characters; an index is counted from 0  *)
(* as in the source.                                                       *)

LowerCase == {"a", "b", "c", "d", "e", "f", "i", "l", "m", "n", "o", "p", "r", "s", "t", "z"}
UpperCase == {"A", "B", "C", "N"}
Digits == {"1", "2", "4", "5"}
Underscore == {"_"}

\* A variant that leaves the character after an underscore as it is.
ToUpperCaseKeeps(ch) == ch

\* String.prototype.toUpperCase on one character
ToUpperCase(ch) ==
  CASE ch = "a" -> "A" [] ch = "b" -> "B" [] ch = "c" -> "C" [] ch = "n" -> "N"
    [] OTHER -> ch

\* String.prototype.toLowerCase on one character
ToLowerCase(ch) ==
  CASE ch = "A" -> "a" [] ch = "B" -> "b" [] ch = "C" -> "c" [] ch = "N" -> "n"
    [] OTHER -> ch

\* name[index]
CharAt(name, index) == name[index + 1]

\* name.slice(from, to) and name.slice(from)
Slice(name, from, to) ==
  LET end == IF to < Len(name) THEN to ELSE Len(name)
  IN IF from >= end THEN <<>> ELSE SubSeq(name, from + 1, end)
SliceFrom(name, from) == Slice(name, from, Len(name))

\* regex.exec(name) of a global regex that matches one character of class:
\* is there a match at or after lastIndex, and the index of the first one.
HasMatch(name, lastIndex, class) ==
  \E k \in 0 .. Len(name) - 1 : k >= lastIndex /\ CharAt(name, k) \in class
MatchIndex(name, lastIndex, class) ==
  CHOOSE k \in 0 .. Len(name) - 1 :
    /\ k >= lastIndex /\ CharAt(name, k) \in class
    /\ \A j \in 0 .. Len(name) - 1 :
         (j >= lastIndex /\ CharAt(name, j) \in class) => k <= j

\* The end of the match of /[0-9][0-9]*/ that starts at index: the index after
\* the last digit of the run.
RECURSIVE RunEnd(_, _)
RunEnd(name, index) ==
  IF index < Len(name) /\ CharAt(name, index) \in Digits
    THEN RunEnd(name, index + 1)
    ELSE index

\* The while loop of sqlName2JsName; wordInitial is '' or one character and
\* keeps its value when the underscore is the last character.
RECURSIVE Sql2JsLoop(_, _, _)
Sql2JsLoop(name, lastIndex, wordInitial) ==
  IF ~HasMatch(name, lastIndex, Underscore) THEN name
  ELSE LET underscoreIndex == MatchIndex(name, lastIndex, Underscore)
           initial == IF underscoreIndex + 1 < Len(name)
                        THEN <<ToUpperCase(CharAt(name, underscoreIndex + 1))>>
                        ELSE wordInitial
       IN Sql2JsLoop(Slice(name, 0, underscoreIndex) \o initial
                       \o SliceFrom(name, underscoreIndex + 2),
                     underscoreIndex + 1, initial)

SqlName2JsName(name) == Sql2JsLoop(name, 0, <<>>)

\* spliceInUnderscore(index, regex): the name after the call
SpliceInUnderscore(name, index) ==
  IF index # 0
    THEN Slice(name, 0, index) \o <<"_", ToLowerCase(CharAt(name, index))>>
           \o SliceFrom(name, index + 1)
    ELSE name

\* The first while loop of jsName2SqlName (upperCaseRegex).
RECURSIVE UpperCaseLoop(_, _)
UpperCaseLoop(name, lastIndex) ==
  IF ~HasMatch(name, lastIndex, UpperCase) THEN name
  ELSE LET index == MatchIndex(name, lastIndex, UpperCase)
       IN UpperCaseLoop(SpliceInUnderscore(name, index),
                        IF index # 0 THEN index + 2 ELSE index + 1)

\* The second while loop of jsName2SqlName (firstNumeralRegex).
RECURSIVE NumeralLoop(_, _)
NumeralLoop(name, lastIndex) ==
  IF ~HasMatch(name, lastIndex, Digits) THEN name
  ELSE LET index == MatchIndex(name, lastIndex, Digits)
           end == RunEnd(name, index)
       IN NumeralLoop(SpliceInUnderscore(name, index),
                      IF index # 0 THEN end + 1 ELSE end)

JsName2SqlName(name) == NumeralLoop(UpperCaseLoop(name, 0), 0)

\* The characters of the names the conversions are called with.
NameChars == {"a", "b", "A", "B", "1", "2", "_"}
NamesUpTo(n) == UNION {[1 .. k -> NameChars] : k \in 0 .. n}

\* convert one name in both directions and back
N_Convert(name) ==
  /\ npc = "idle"
  /\ npc' = "names"
  /\ nin' = name
  /\ njs' = SqlName2JsName(name)
  /\ nsql' = JsName2SqlName(name)
  /\ njsBack' = SqlName2JsName(JsName2SqlName(name))
  /\ nsqlBack' = JsName2SqlName(SqlName2JsName(name))
  /\ UNCHANGED <<gcriteria, gargs, gout>>
  /\ UNCHANGED <<poolVars, queryVars, sessVars, serVars, logVars, faultVars>>
  /\ UNCHANGED <<regVars, svcVars, callVars>>

\* An array: its elements, and which array object it is.
ArrayOf(ref, items) == [ref |-> ref, items |-> items]
NoArgs == [given |-> FALSE, items |-> <<>>]
GivenArgs(items) == [given |-> TRUE, items |-> items]
NoWhere == [conditions |-> <<>>, args |-> <<>>, caller |-> <<>>]

\* The property names and the values of the criteria objects.
firstName == <<"f", "i", "r", "s", "t", "N", "a", "m", "e">>
lastName == <<"l", "a", "s", "t", "N", "a", "m", "e">>
zipCode5 == <<"z", "i", "p", "C", "o", "d", "e", "5">>
zipCode4 == <<"z", "i", "p", "C", "o", "d", "e", "4">>
Fields == {firstName, lastName, zipCode5, zipCode4}
StringValue(v) == [isString |-> TRUE, v |-> v]
OtherValue(v) == [isString |-> FALSE, v |-> v]
Values == {StringValue("Ja"), StringValue("Br"), StringValue(""), OtherValue("42"),
           OtherValue("null")}
ArgValues == {"already", "got"}

\* A variant that works on the caller's array itself.
CloneDeepSameArray(args) == ArrayOf("caller", args.items)

\* _.cloneDeep(args): a new array with the same elements
CloneDeep(args) == ArrayOf("new", args.items)

\* if (!args) args = []; else args = _.cloneDeep(args);
WorkingArgs(args) == IF ~args.given THEN ArrayOf("new", <<>>) ELSE CloneDeep(args)

\* sprintf("\"%s\" LIKE $%i || '%%'", sqlField, argNumber)
Condition(sqlField, argNumber) ==
  [quoted |-> sqlField, op |-> "LIKE", placeholder |-> argNumber, suffix |-> "|| '%'"]

\* The _.forEach over the properties of criteria, in their order, from the
\* i-th on: the conditions, the working array and argNumber.
RECURSIVE WhereLoop(_, _, _, _, _)
WhereLoop(criteria, i, conditions, items, argNumber) ==
  IF i > Len(criteria) THEN [conditions |-> conditions, items |-> items]
  ELSE IF criteria[i].value.isString
    THEN WhereLoop(criteria, i + 1,
                   Append(conditions,
                          Condition(JsName2SqlName(criteria[i].field), argNumber + 1)),
                   Append(items, criteria[i].value.v),
                   argNumber + 1)
    ELSE WhereLoop(criteria, i + 1, conditions, items, argNumber)

GenWhereLikePrefixConditions(criteria, args) ==
  LET work == WorkingArgs(args)
      res == WhereLoop(criteria, 1, <<>>, work.items, Len(work.items))
  IN [conditions |-> res.conditions,
      args |-> res.items,
      caller |-> IF work.ref = "caller" THEN res.items ELSE args.items]

\* The criteria objects: properties with distinct names, in insertion order.
Criteria ==
  {c \in UNION {[1 .. k -> [field : Fields, value : Values]] : k \in 0 .. MaxCriteria} :
     \A i, j \in 1 .. Len(c) : i # j => c[i].field # c[j].field}
ArgsGiven ==
  {NoArgs} \cup {GivenArgs(a) : a \in UNION {[1 .. k -> ArgValues] : k \in 0 .. MaxArgs}}

N_Where(criteria, args) ==
  /\ npc = "idle"
  /\ npc' = "where"
  /\ gcriteria' = criteria
  /\ gargs' = args
  /\ gout' = GenWhereLikePrefixConditions(criteria, args)
  /\ UNCHANGED <<nin, njs, nsql, njsBack, nsqlBack>>
  /\ UNCHANGED <<poolVars, queryVars, sessVars, serVars, logVars, faultVars>>
  /\ UNCHANGED <<regVars, svcVars, callVars>>

\* One call is made in a run.
NextNames ==
  \/ npc = "idle" /\ \E name \in NamesUpTo(MaxName) : N_Convert(name)
  \/ npc = "idle" /\ \E criteria \in Criteria, args \in ArgsGiven : N_Where(criteria, args)

\* The state after construction, with the managed calls Q about to start.
InitOf(Q) ==
  /\ owner = [c \in Clients |-> NoOne]
  /\ dirty = [c \in Clients |-> FALSE]
  /\ servedDirty = {}
  /\ qpc = [q \in Q |-> "start"]
  /\ qconn = [q \in Q |-> NoClient]
  /\ qclient = [q \in Q |-> NoClient]
  /\ qval = [q \in Q |-> Pending]
  /\ qout = [q \in Q |-> Pending]
  /\ qacq = [q \in Q |-> 0]
  /\ qrel = [q \in Q |-> 0]
  /\ qissued = [q \in Q |-> NoStmt]
  /\ scalls = [s \in Sessions |-> <<>>]
  /\ clog = [c \in Clients |-> <<>>]
  /\ qn = [q \in Q |-> 0]
  /\ qfailed = [q \in Q |-> FALSE]
  /\ spc = [s \in Sessions |-> "start"]
  /\ sclient = [s \in Sessions |-> NoClient]
  /\ sop = [s \in Sessions |-> "none"]
  /\ sstmt = [s \in Sessions |-> Pending]
  /\ sres = [s \in Sessions |-> Pending]
  /\ sops = [s \in Sessions |-> 0]
  /\ srel = [s \in Sessions |-> 0]
  /\ soprel = [s \in Sessions |-> 0]
  /\ suse = [s \in Sessions |-> FALSE]
  /\ sissued = [s \in Sessions |-> NoStmt]
  /\ connOwn = [n \in Names |-> 0]
  /\ connProto = 0
  /\ nHandles = 0
  /\ hcfg = [h \in Handles |-> "none"]
  /\ pools = [n \in Names |-> 0]
  /\ ncalls = 0
  /\ ret = NoRet
  /\ first = [n \in Names |-> NoFirst]
  /\ call = NoCall
  /\ rfailed = {}
  /\ vpc = "idle"
  /\ vcfg = NoConfig
  /\ vvalid = "none"
  /\ verrors = <<>>
  /\ vreq = "none"
  /\ vdbv = "none"
  /\ vq = "none"
  /\ vpath = "none"
  /\ vacq = 0
  /\ vrel = 0
  /\ vstmt = NoStmt
  /\ vlog = <<>>
  /\ vout = SvcPending
  /\ wenv = NoEnv
  /\ wpc = [r \in Runs |-> "idle"]
  /\ wclient = [r \in Runs |-> NoClient]
  /\ wval = [r \in Runs |-> Pending]
  /\ wtrace = [r \in Runs |-> <<>>]
  /\ wconsole = [r \in Runs |-> 0]
  /\ wimpl = [r \in Runs |-> <<>>]
  /\ wquery = [r \in Runs |-> <<>>]
  /\ wout = [r \in Runs |-> Pending]
  /\ flog = <<>>
  /\ npc = "idle"
  /\ nin = <<>>
  /\ njs = <<>>
  /\ nsql = <<>>
  /\ njsBack = <<>>
  /\ nsqlBack = <<>>
  /\ gcriteria = <<>>
  /\ gargs = NoArgs
  /\ gout = NoWhere

Init == InitOf(Queries)

InitLive == InitOf(LiveQueries)

Next ==
  \/ \E q \in Queries : SQ_Connect(q)
  \/ \E q \in Queries : SQ_Then1(q)
  \/ \E q \in Queries : SQ_QueryDone(q)
  \/ \E q \in Queries : SQ_Then2(q)
  \/ \E q \in Queries : SQ_Catch(q)
  \/ \E q \in Queries : SQ_Finally(q)
  \/ \E q \in Queries : SQ_Settle(q)
  \/ \E s \in Sessions : S_GetClient(s)
  \/ \E s \in Sessions, op \in Ops : S_Call(s, op)
  \/ \E s \in Sessions : S_StmtDone(s)
  \/ \E s \in Sessions : S_Handler(s)
  \/ \E s \in Sessions : S_Release(s)

Spec == Init /\ [][Next]_vars

SpecReg == Init /\ [][NextReg]_vars

\* A caller that runs managed queries in series, beside a caller that takes
\* an explicit client and gives it back.
NextSeries ==
  \/ \E q \in Queries : SQ_Connect(q)
  \/ \E q \in Queries : SQ_Then1(q)
  \/ \E q \in Queries : SQ_QueryDone(q)
  \/ \E q \in Queries : SQ_Then2(q)
  \/ \E q \in Queries : SQ_Catch(q)
  \/ \E q \in Queries : SQ_Finally(q)
  \/ \E q \in Queries : SQ_Settle(q)
  \/ \E q \in Queries : SQ_Again(q)
  \/ \E s \in Sessions : S_GetClient(s)
  \/ \E s \in Sessions : S_Release(s)

SpecSeries == Init /\ [][NextSeries]_vars

\* A caller that chains operations on its explicit client, with the trace of
\* the statements recorded.
NextOrder ==
  \/ \E s \in Sessions : S_GetClient(s)
  \/ \E s \in Sessions, op \in Ops : S_CallTraced(s, op)
  \/ \E s \in Sessions : S_StmtDone(s)
  \/ \E s \in Sessions : S_Handler(s)
  \/ \E s \in Sessions : S_Release(s)

SpecOrder == Init /\ [][NextOrder]_vars

SpecSvc == Init /\ [][NextSvc]_vars

SpecCall == Init /\ [][NextCall]_vars

SpecFault == Init /\ [][NextFault]_vars

SpecNames == Init /\ [][NextNames]_vars

\* Managed queries that share the pool with nobody else: connect() of an
\* exhausted pool stays pending until a client is given back.
L_Connect(q) ==
  /\ Idle(owner) # {}
  /\ SQ_Connect(q)

NextLive ==
  \/ \E q \in LiveQueries : L_Connect(q)
  \/ \E q \in LiveQueries : SQ_Then1(q)
  \/ \E q \in LiveQueries : SQ_QueryDone(q)
  \/ \E q \in LiveQueries : SQ_Then2(q)
  \/ \E q \in LiveQueries : SQ_Catch(q)
  \/ \E q \in LiveQueries : SQ_Finally(q)
  \/ \E q \in LiveQueries : SQ_Settle(q)

\* The pool settles a pending connect() while it has a client to give, the
\* driver answers every statement it was handed, and the event loop runs the
\* callback of every settled promise.
LiveFairness ==
  \A q \in LiveQueries :
    /\ WF_vars(L_Connect(q))
    /\ WF_vars(SQ_Then1(q))
    /\ WF_vars(SQ_QueryDone(q))
    /\ WF_vars(SQ_Then2(q))
    /\ WF_vars(SQ_Catch(q))
    /\ WF_vars(SQ_Finally(q))
    /\ WF_vars(SQ_Settle(q))

SpecLive == InitLive /\ [][NextLive]_vars /\ LiveFairness

-----------------------------------------------------------------------------
(* Properties.                                                             *)

\* The managed call q got a client from the pool.
QGotClient(q) == qconn[q] # NoClient

\* The handlers of q's chain have all run.
QHandlersDone(q) == qpc[q] \in {"settle", "done"}

\* The operation the caller s started has settled.
SOpSettled(s) == sop[s] # "none" /\ sres[s].kind # "pending"

\* The statement of the caller's operation failed (driver error or throw).
SStmtFailed(s) == sstmt[s].kind = "rejected"

\* A step of caller s that belongs to an operation on its client.
SOpStep(s) ==
  /\ spc'[s] # spc[s]
  /\ spc[s] \in {"stmt", "handler"} \/ spc'[s] \in {"stmt", "handler"}

\* C1: a managed query that got a client acquired exactly one client and,
\* once its handlers have run, has called release() exactly once, whether
\* the statement succeeded, failed, or client.query() threw; it never has
\* more releases than acquisitions.
C1_ManagedAcquireOnceReleaseOnce ==
  \A q \in Queries :
    /\ qacq[q] <= 1
    /\ qrel[q] <= qacq[q]
    /\ (QGotClient(q) /\ QHandlersDone(q)) => (qacq[q] = 1 /\ qrel[q] = 1)

\* C1 witness: a managed query whose client.query() threw has settled,
\* having released its one client once.
C1_Witness ==
  \E q \in Queries :
    /\ qpc[q] = "done" /\ qout[q] = SyncThrow
    /\ qacq[q] = 1 /\ qrel[q] = 1

\* C2: at the step where the promise of a managed query settles, the release
\* of its client has already happened in an earlier step, and no release
\* happens at or after the settling.
C2_ReleaseBeforeSettle ==
  [][\A q \in Queries :
       /\ (QGotClient(q) /\ qout[q].kind = "pending" /\ qout'[q].kind # "pending")
            => (qrel[q] = 1 /\ qrel'[q] = 1 /\ owner[qconn[q]] # q)
       /\ qout[q].kind # "pending" => qrel'[q] = qrel[q]]_vars

\* C2 witness: a managed query rejected with the statement's error, its
\* client released.
C2_Witness ==
  \E q \in Queries :
    /\ qout[q] = Rejected("CLIENT_ERROR")
    /\ qrel[q] = 1 /\ owner[qconn[q]] # q

\* C3 (as claimed): on no leased client is release() called twice, and no
\* statement is issued on a client after release() was called on it.
C3_NoDoubleReleaseNoUseAfterRelease ==
  /\ \A q \in Queries : qrel[q] <= 1
  /\ \A s \in Sessions : srel[s] <= 1 /\ ~suse[s]

\* C4: a rollbackTransaction whose ROLLBACK failed has made exactly one
\* release() call on the client.
C4_FailedRollbackReleasesOnce ==
  \A s \in Sessions :
    (sop[s] = "rollback" /\ SStmtFailed(s) /\ SOpSettled(s)) => soprel[s] = 1

\* C4 witness: a rollbackTransaction settled after the driver failed ROLLBACK.
C4_Witness ==
  \E s \in Sessions :
    /\ sop[s] = "rollback" /\ sstmt[s] = Rejected("CLIENT_ERROR")
    /\ SOpSettled(s) /\ soprel[s] = 1

\* C5: the promise of rollbackTransaction never rejects: when the ROLLBACK
\* statement fails it is fulfilled, as it is when ROLLBACK succeeds.
C5_RollbackNeverRejects ==
  \A s \in Sessions :
    (sop[s] = "rollback" /\ SOpSettled(s)) => sres[s].kind = "resolved"

\* C5 witness: ROLLBACK failed and the caller got a fulfilled promise.
C5_Witness ==
  \E s \in Sessions :
    /\ sop[s] = "rollback" /\ SStmtFailed(s)
    /\ sres[s] = Resolved("undefined")

\* C6 (as claimed): no acquisition is ever served a client whose ROLLBACK
\* failed and whose transaction state is therefore unknown.
C6_DirtyClientNeverServed ==
  servedDirty = {}

\* C7: when COMMIT fails, commitTransaction rejects with the statement's
\* failure itself, makes no release() call, and the client stays leased to
\* the caller as long as nobody called release() on it.
C7_FailedCommitPropagates ==
  \A s \in Sessions :
    (sop[s] = "commit" /\ SStmtFailed(s) /\ SOpSettled(s)) =>
      /\ sres[s] = sstmt[s]
      /\ soprel[s] = 0
      /\ srel[s] = 0 => owner[sclient[s]] = s

\* C7 witness: COMMIT failed, the caller holds the rejection and the lease.
C7_Witness ==
  \E s \in Sessions :
    /\ sop[s] = "commit" /\ sstmt[s] = Rejected("CLIENT_ERROR")
    /\ sres[s] = Rejected("CLIENT_ERROR")
    /\ spc[s] = "held" /\ owner[sclient[s]] = s

\* C8: no step of a client-scoped query acquires or releases a client (the
\* lease table and the release count do not change), and its statement is
\* handed to the client the caller supplied.
C8_QueryWithClientLeavesPoolAlone ==
  [][\A s \in Sessions :
       (SOpStep(s) /\ sop'[s] = "query") =>
         /\ owner' = owner
         /\ srel' = srel
         /\ sissued'[s] = [text |-> "SQL", client |-> sclient[s]]]_vars

\* C8 witness: a client-scoped query rejected with the statement's error and
\* the caller still holds the lease, unreleased.
C8_Witness ==
  \E s \in Sessions :
    /\ sop[s] = "query" /\ sres[s] = Rejected("CLIENT_ERROR")
    /\ srel[s] = 0 /\ owner[sclient[s]] = s

\* C9 (as claimed): whatever getConnection calls were made, at most one pool
\* has been started for each name, and a name for which a pool was started
\* maps to one connection handle.
C9_OneHandleOnePoolPerName ==
  \A n \in Names :
    /\ pools[n] <= 1
    /\ pools[n] >= 1 => GetProp(connOwn, connProto, n) \in 1 .. nHandles

\* C10 (as claimed): a getConnection call for a name that an earlier call
\* already served returns the handle of that first call, whatever mode and
\* configOverride it is given, and leaves that handle's configuration alone.
C10_GetConnectionIdempotent ==
  [][ncalls' = ncalls + 1 =>
       LET n == ret'.name IN
         first[n].h # 0 =>
           /\ ret' = Returned(n, first[n].h)
           /\ hcfg'[first[n].h] = hcfg[first[n].h]]_vars

\* C11 (as claimed): after a getConnection call for a name that is not in the
\* registry, made without configOverride and with no configuration file
\* resolving for (name, mode), the call has failed with the
\* configuration-not-found error and has returned no handle.
C11_MissingConfigFails ==
  (/\ ncalls > 0
   /\ ~HasOwn(connOwn, call.name)
   /\ call.override = "none"
   /\ LoadConnectionConfigFromFile(call.name, DefaultMode(call.mode)) = "notfound")
    => ret = Threw(call.name, "ConfigNotFound")

\* The caller's series of managed queries has run more queries than the pool
\* has clients.
SeriesOutranPool(q) == qpc[q] = "done" /\ qn[q] + 1 > PoolMax

OpOfText(text) ==
  CASE text = "BEGIN" -> "begin"
    [] text = "COMMIT" -> "commit"
    [] text = "ROLLBACK" -> "rollback"
    [] OTHER -> "query"

IsReceived(e) == e.received

\* The calls of caller s that handed a statement to the client, in call order.
CallsReceived(s) == SelectSeq(scalls[s], IsReceived)

Invoked(fn) == Cardinality({i \in 1 .. Len(vlog) : vlog[i].fn = fn})

\* The entries of the log that are calls of fn.
CallsOf(fn) == {i \in 1 .. Len(vlog) : vlog[i].fn = fn}

\* The place of each step in the pipeline.
Rank(fn) ==
  CASE fn = "fnValidate" -> 1
    [] fn = "fnSanitizeRequest" -> 2
    [] fn = "fnDbValidate" -> 3
    [] fn = "fnMakeQuery" -> 4
    [] OTHER -> 5

\* C15: when fnValidate returned false, nothing but fnValidate is ever
\* invoked, the call never throws and its promise is never fulfilled, and
\* once settled it is rejected with VALIDATION_ERROR carrying exactly the
\* codes fnValidate pushed, in the order it pushed them.
C15_FailedValidationRejectsWithCodes ==
  vvalid = "false" =>
    /\ Len(vlog) = 1 /\ vlog[1].fn = "fnValidate"
    /\ vout.kind \in {"pending", "rejected"}
    /\ vpc = "done" =>
         /\ vout.kind = "rejected" /\ vout.val = "VALIDATION_ERROR"
         /\ vout.hasErrors /\ vout.errors = verrors

\* C15 witness: fnValidate pushed two codes and returned false, with
\* fnSanitizeRequest and fnDbValidate supplied, and the call was rejected
\* with both codes in order.
C15_Witness ==
  /\ vpc = "done" /\ vvalid = "false"
  /\ vcfg.fnSanitizeRequest = "fn" /\ vcfg.fnDbValidate = "fn"
  /\ vout.val = "VALIDATION_ERROR" /\ vout.errors = <<"INVALID_ID", "MISSING_NAME">>

\* C16 (as claimed): a settled call with oneOrMany 'one' that passed
\* validation (fnValidate returned true and fnDbValidate's promise was
\* fulfilled) has invoked the one-row execution function exactly once and
\* the many-row function never, and the other way round for 'many'; any
\* other mode invokes neither and rejects with SERVER_REQUEST_ERROR.
C16_SelectedExecutionRunsOnce ==
  /\ (vpc = "done" /\ vvalid = "true" /\ vdbv = "resolved" /\ vcfg.oneOrMany = "one") =>
       (Invoked("squelQueryReturningOne") = 1 /\ Invoked("squelQueryReturningMany") = 0)
  /\ (vpc = "done" /\ vvalid = "true" /\ vdbv = "resolved" /\ vcfg.oneOrMany = "many") =>
       (Invoked("squelQueryReturningMany") = 1 /\ Invoked("squelQueryReturningOne") = 0)
  /\ (vpc = "done" /\ vcfg.oneOrMany \notin {"one", "many"}) =>
       /\ Invoked("squelQueryReturningOne") = 0 /\ Invoked("squelQueryReturningMany") = 0
       /\ vout.kind = "rejected" /\ vout.val = "SERVER_REQUEST_ERROR"

\* C16 (amended): the execution function of the other mode is never
\* invoked and the one of the call's mode at most once; it has been invoked
\* exactly once in every call in which fnMakeQuery returned (hence
\* fnValidate passed and fnDbValidate's promise was fulfilled), and never in
\* a call in which fnMakeQuery did not return; any other mode invokes
\* neither and rejects with SERVER_REQUEST_ERROR.
C16_SelectedExecutionAfterMakeQuery ==
  LET mine == IF vcfg.oneOrMany = "one" THEN "squelQueryReturningOne"
              ELSE "squelQueryReturningMany"
      other == IF vcfg.oneOrMany = "one" THEN "squelQueryReturningMany"
               ELSE "squelQueryReturningOne"
  IN
    /\ vcfg.oneOrMany \in {"one", "many"} =>
         /\ Invoked(other) = 0
         /\ Invoked(mine) = IF vq # "none" THEN 1 ELSE 0
    /\ (vpc # "idle" /\ vcfg.oneOrMany \notin {"one", "many"}) =>
         /\ Invoked("squelQueryReturningOne") = 0 /\ Invoked("squelQueryReturningMany") = 0
         /\ vpc = "done" => (vout.kind = "rejected" /\ vout.val = "SERVER_REQUEST_ERROR")

\* C16 witness: a 'many' call ran to the end: the many-row function was
\* invoked once, the one-row function never, and the call was fulfilled with
\* the rows.
C16_Witness ==
  /\ vpc = "done" /\ vcfg.oneOrMany = "many"
  /\ vout = SvcResolved("rows")
  /\ Invoked("squelQueryReturningMany") = 1 /\ Invoked("squelQueryReturningOne") = 0

\* C17: when oneOrMany is neither 'one' nor 'many', no callback and no
\* execution function is ever invoked (fnValidate included), and the call
\* ends rejected with SERVER_REQUEST_ERROR.
C17_ModeCheckedFirst ==
  (vpc # "idle" /\ vcfg.oneOrMany \notin {"one", "many"}) =>
    /\ vlog = <<>>
    /\ vvalid = "none" /\ vdbv = "none" /\ vq = "none"
    /\ vout.kind \in {"pending", "rejected"}
    /\ vpc = "done" => (vout.kind = "rejected" /\ vout.val = "SERVER_REQUEST_ERROR")

\* C17 witness: a call with mode 'two' and every callback supplied was
\* rejected with SERVER_REQUEST_ERROR, nothing invoked.
C17_Witness ==
  /\ vpc = "done" /\ vcfg.oneOrMany = "two"
  /\ vcfg.fnSanitizeRequest = "fn" /\ vcfg.fnDbValidate = "fn"
  /\ vout = SvcRejected("SERVER_REQUEST_ERROR") /\ vlog = <<>>

\* C18: the steps invoked so far are always a beginning of the sequence
\* fnValidate, fnSanitizeRequest (when it is a function), fnDbValidate,
\* fnMakeQuery, execution function; while fnDbValidate's promise is pending
\* nothing further is invoked, and fnMakeQuery is invoked only after that
\* promise was fulfilled.
C18_PipelineOrder ==
  LET expected == IF vcfg.fnSanitizeRequest = "fn" THEN <<1, 2, 3, 4, 5>>
                                                    ELSE <<1, 3, 4, 5>>
  IN
    /\ Len(vlog) <= Len(expected)
    /\ \A i \in 1 .. Len(vlog) : Rank(vlog[i].fn) = expected[i]
    /\ Invoked("fnDbValidate") > 0 => vvalid = "true"
    /\ vdbv = "pending" => vlog[Len(vlog)].fn = "fnDbValidate"
    /\ Invoked("fnMakeQuery") > 0 => vdbv = "resolved"

\* C18 witness: a call with fnSanitizeRequest ran all five steps and was
\* fulfilled.
C18_Witness ==
  /\ vpc = "done" /\ vout.kind = "resolved"
  /\ Len(vlog) = 5
  /\ vlog[2].fn = "fnSanitizeRequest" /\ vlog[3].fn = "fnDbValidate"
  /\ vlog[4].fn = "fnMakeQuery" /\ vlog[5].fn = "squelQueryReturningOne"

\* C19: fnDbValidate and fnMakeQuery are passed what fnSanitizeRequest
\* returned when the config has that function, and the original request
\* when it has not.
C19_SanitizedRequestPassedOn ==
  \A i \in CallsOf("fnDbValidate") \cup CallsOf("fnMakeQuery") :
    IF vcfg.fnSanitizeRequest = "fn"
      THEN \E j \in CallsOf("fnSanitizeRequest") : j < i /\ vlog[i].req = vlog[j].val
      ELSE CallsOf("fnSanitizeRequest") = {} /\ vlog[i].req = OriginalReq

\* C19 witness: fnSanitizeRequest returned the sanitized request and both
\* fnDbValidate and fnMakeQuery were called with it.
C19_Witness ==
  /\ Len(vlog) >= 4
  /\ vlog[2].fn = "fnSanitizeRequest" /\ vlog[2].val = "sanitized"
  /\ vlog[3].fn = "fnDbValidate" /\ vlog[3].req = "sanitized"
  /\ vlog[4].fn = "fnMakeQuery" /\ vlog[4].req = "sanitized"

\* C20: when the config carries a client, fnDbValidate and the execution
\* function are passed that client, the statement goes to that client, and
\* the call acquires no client from the pool and makes no release() call.
C20_SuppliedClientUsedNotPooled ==
  vcfg.client # NoClient =>
    /\ \A i \in 1 .. Len(vlog) :
         Rank(vlog[i].fn) \in {3, 5} => vlog[i].client = vcfg.client
    /\ vpath # "managed"
    /\ vacq = 0 /\ vrel = 0
    /\ vstmt # NoStmt => vstmt.client = vcfg.client

\* C20 witness: a call with a client in its config was fulfilled after its
\* statement ran on that client, nothing acquired and nothing released.
C20_Witness ==
  /\ vpc = "done" /\ vout.kind = "resolved"
  /\ vcfg.client # NoClient
  /\ vstmt = [text |-> "SQL", client |-> vcfg.client]
  /\ Invoked("fnDbValidate") = 1
  /\ vacq = 0 /\ vrel = 0

\* The failures a call of runBasicService ends in without the execution
\* step or a callback of the caller being the cause.
SvcFailed == vpc = "done" /\ vout.kind \in {"rejected", "thrown"}

\* The call failed with SERVER_REQUEST_ERROR.
SvcIsServerRequestError ==
  vout.kind = "rejected" /\ vout.val = "SERVER_REQUEST_ERROR" /\ ~vout.hasErrors

\* The call failed with VALIDATION_ERROR carrying the codes of fnValidate.
SvcIsValidationError ==
  /\ vout.kind = "rejected" /\ vout.val = "VALIDATION_ERROR"
  /\ vout.hasErrors /\ vout.errors = verrors

\* The call failed with the error of the execution step, as the driver
\* or the pool raised it.
SvcIsExecutionError ==
  /\ vout.kind = "rejected" /\ vout.val \in {"CLIENT_ERROR", "PG_ERROR"} /\ ~vout.hasErrors
  /\ Invoked("squelQueryReturningOne") + Invoked("squelQueryReturningMany") = 1

C22_FailuresAreRejections ==
  /\ vout.kind # "thrown"
  /\ \A s \in Sessions :
       (SOpSettled(s) /\ SStmtFailed(s)) => sres[s].kind = "rejected"
  /\ \A q \in Queries : qpc[q] = "done" => qout[q].kind \in {"resolved", "rejected"}

\* The statements run r handed to the driver.
Executes(r) == {i \in 1 .. Len(wtrace[r]) : wtrace[r][i].step = "execute"}

\* The release() calls run r made.
Releases(r) == {i \in 1 .. Len(wtrace[r]) : wtrace[r][i].step = "release"}

\* The clients run r acquired from the pool.
Acquires(r) == {i \in 1 .. Len(wtrace[r]) : wtrace[r][i].step = "acquire"}

\* Run r has a client to issue its statement on: the caller's, or one
\* the pool gave it.
WHasClient == wenv.client # NoClient \/ wenv.connects

\* The statement of the call failed: client.query() threw or the driver
\* called back with an error.
WStmtFailed == WHasClient /\ (wenv.throws \/ wenv.answer.kind = "rejected")

\* C23: a call of query (with or without a client), of queryReturningMany
\* or queryReturningOne, of squelQuery or one of its two variants, or of a
\* transaction primitive hands at most one statement to the driver, whether
\* the statement succeeds or fails: a settled call that had a client and a
\* text has issued exactly one statement, and a call whose connect() failed
\* or whose compiled query had no text none.
C23_StatementIssuedAtMostOnce ==
  \A r \in Runs :
    /\ Cardinality(Executes(r)) <= 1
    /\ (wpc[r] = "done" /\ WHasClient /\ wenv.text = "SQL") =>
         Cardinality(Executes(r)) = 1
    /\ (wpc[r] = "done" /\ ~(WHasClient /\ wenv.text = "SQL")) => Executes(r) = {}

\* C23 witness: a managed query whose statement the driver failed has
\* settled as rejected after one statement.
C23_Witness ==
  /\ wenv.fn = "query" /\ wenv.client = NoClient /\ wenv.answer.kind = "rejected"
  /\ wpc[FALSE] = "done" /\ wout[FALSE].kind = "rejected"
  /\ Cardinality(Executes(FALSE)) = 1

\* The error the driver raised for the statement of the call.
WDriverError == IF wenv.throws THEN WThrown.val ELSE wenv.answer.val

\* The steps of a managed query that got client c: acquire, execute, release.
ManagedSteps(c, args) ==
  <<WStep("acquire", c, "", ""), WStep("execute", c, "SQL", args),
    WStep("release", c, "", "")>>

Agree(a, b) ==
  \A i \in 1 .. (IF Len(a) < Len(b) THEN Len(a) ELSE Len(b)) : a[i] = b[i]

\* C25: the run with verbose set and the run with verbose unset, given
\* the same call and the same behaviour of the pool and the driver, make
\* the same acquire, execute and release steps (same clients, statement
\* and args, same order) through the same implementation, at every point
\* as far as both have come, and once both have settled their whole traces
\* and their outcomes are equal; the run with verbose unset writes nothing
\* to the console.
C25_VerboseChangesOnlyConsole ==
  /\ Agree(wtrace[TRUE], wtrace[FALSE])
  /\ Agree(wimpl[TRUE], wimpl[FALSE])
  /\ wconsole[FALSE] = 0
  /\ (wpc[TRUE] = "done" /\ wpc[FALSE] = "done") =>
       /\ wtrace[TRUE] = wtrace[FALSE]
       /\ wimpl[TRUE] = wimpl[FALSE]
       /\ wout[TRUE] = wout[FALSE]

\* C25 witness: a managed query without args has settled in both runs
\* after the same three steps, and only the verbose run wrote to the console.
C25_Witness ==
  /\ wenv.fn = "query" /\ wenv.client = NoClient /\ wenv.args = "undefined"
  /\ wpc[TRUE] = "done" /\ wpc[FALSE] = "done"
  /\ Len(wtrace[TRUE]) = 3 /\ wtrace[FALSE] = wtrace[TRUE]
  /\ wconsole[TRUE] > 0 /\ wconsole[FALSE] = 0

\* C26: when pool.connect() fails for a query without a client (query,
\* queryReturningMany, queryReturningOne), the run never hands a statement
\* to the driver and never calls release(), at no point of its chain, its
\* `client` variable stays unset, and the promise is never fulfilled: once
\* settled it is rejected with the error of connect().
C26_FailedAcquireRejectsWithoutRelease ==
  \A r \in Runs :
    (wenv.fn \in QueryFns /\ wenv.client = NoClient /\ ~wenv.connects) =>
      /\ Executes(r) = {} /\ Releases(r) = {} /\ Acquires(r) = {}
      /\ wclient[r] = NoClient
      /\ wout[r].kind \in {"pending", "rejected"}
      /\ wpc[r] = "done" =>
           /\ wout[r].kind = "rejected"
           /\ wout[r].val.t = "error" /\ wout[r].val.name = "PG_ERROR"

\* C26 witness: connect() failed and the promise has been rejected.
C26_Witness ==
  /\ wenv.fn = "query" /\ wenv.client = NoClient /\ ~wenv.connects
  /\ wpc[FALSE] = "done" /\ wout[FALSE].kind = "rejected"
  /\ wtrace[FALSE] = <<>>

\* C27: a call of query (also through queryReturningMany and
\* queryReturningOne) has invoked nothing before __DI_query runs, and from
\* then on exactly one implementation, once: the client-scoped one when a
\* client was passed, which then acquires nothing from the pool and issues
\* on the caller's client, and the managed one when no client was passed.
C27_DispatchOnClient ==
  \A r \in Runs :
    wenv.fn \in QueryFns =>
      /\ wpc[r] \in {"idle", "call"} => wimpl[r] = <<>>
      /\ (wpc[r] \notin {"idle", "call"} /\ wenv.client # NoClient) =>
           /\ wimpl[r] = <<"withClient">>
           /\ Acquires(r) = {}
           /\ \A i \in Executes(r) : wtrace[r][i].client = wenv.client
      /\ (wpc[r] \notin {"idle", "call"} /\ wenv.client = NoClient) =>
           wimpl[r] = <<"managed">>

\* C27 witness: one settled call with a client went through the
\* client-scoped implementation (the other run is still to be dispatched).
C27_Witness ==
  /\ wenv.fn = "query" /\ wenv.client # NoClient
  /\ wpc[TRUE] = "done" /\ wimpl[TRUE] = <<"withClient">>
  /\ wpc[FALSE] = "call" /\ wimpl[FALSE] = <<>>

\* The statement of the call succeeded: the driver called back with a result.
WStmtOk == WHasClient /\ ~wenv.throws /\ wenv.answer.kind = "resolved"

\* C28: turnQueryResultIntoRows, applied by queryReturningMany to the
\* result of the driver, always yields an array: the rows of the result, in
\* order, when the result has a `rows` property, and the empty array for
\* every other result, also one that is not well formed.
C28_ProjectRowsYieldsRows ==
  \A r \in Runs :
    (wenv.fn = "queryReturningMany" /\ wpc[r] = "done" /\ WStmtOk) =>
      /\ wout[r].kind = "resolved"
      /\ wout[r].val.t = "array"
      /\ wout[r].val.items =
           (IF wenv.answer.val.t = "object" /\ wenv.answer.val.has
              THEN wenv.answer.val.items ELSE <<>>)

\* The driver's result has an array of at least one row.
WSomeRows ==
  /\ wenv.answer.val.t = "object" /\ wenv.answer.val.has
  /\ wenv.answer.val.rowsT = "array" /\ Len(wenv.answer.val.items) > 0

\* C29: turnRowsIntoSingleResult, applied by queryReturningOne to the rows
\* of the driver's result, yields the first row when there is at least one
\* row, and the empty object {} when the rows are an empty array or null;
\* what it yields is always an object, never null or undefined.
C29_ProjectSingleYieldsRowOrEmpty ==
  \A r \in Runs :
    (wenv.fn = "queryReturningOne" /\ wpc[r] = "done" /\ WStmtOk) =>
      /\ wout[r].kind = "resolved"
      /\ wout[r].val.t = "object" /\ ~wout[r].val.has
      /\ wout[r].val.id = (IF WSomeRows THEN wenv.answer.val.items[1] ELSE 0)

\* C29 witness: of the rows [{id: 2}, {id: 1}] queryReturningOne gave {id: 2}.
C29_Witness ==
  /\ wenv.fn = "queryReturningOne" /\ wenv.answer.kind = "resolved"
  /\ wenv.answer.val.has /\ wenv.answer.val.items = <<2, 1>>
  /\ wpc[FALSE] = "done" /\ wout[FALSE].kind = "resolved"
  /\ wout[FALSE].val.id = 2

\* C30: for the result r the driver gave to query, queryReturningMany
\* fulfils with turnQueryResultIntoRows(r) and queryReturningOne with
\* turnRowsIntoSingleResult(turnQueryResultIntoRows(r)), where query itself
\* fulfils with r; a rejection of query is the rejection of all three. The
\* result {rows: [{id: 1}, {id: 2}]} gives [{id: 1}, {id: 2}] and {id: 1},
\* and the result {} gives [] and {}.
C30_ProjectionsComposeOverQuery ==
  \A r \in Runs :
    (wpc[r] = "done" /\ wenv.fn \in QueryFns /\ WHasClient) =>
      LET res == IF wenv.throws THEN WThrown ELSE wenv.answer IN
        /\ res.kind = "rejected" => wout[r] = res
        /\ (res.kind = "resolved" /\ wenv.fn = "query") => wout[r] = res
        /\ (res.kind = "resolved" /\ wenv.fn = "queryReturningMany") =>
             /\ wout[r] = Resolved(TurnQueryResultIntoRows(res.val))
             /\ res.val = JsResult("array", <<1, 2>>) => wout[r].val = JsArray(<<1, 2>>)
             /\ res.val = JsObject => wout[r].val = JsArray(<<>>)
        /\ (res.kind = "resolved" /\ wenv.fn = "queryReturningOne") =>
             /\ wout[r] = Resolved(TurnRowsIntoSingleResult(TurnQueryResultIntoRows(res.val)))
             /\ res.val = JsResult("array", <<1, 2>>) => wout[r].val = JsRow(1)
             /\ res.val = JsObject => wout[r].val = JsObject

\* C30 witness: queryReturningOne over the result {rows: [{id: 1}, {id: 2}]}
\* has fulfilled with {id: 1}.
C30_Witness ==
  /\ wenv.fn = "queryReturningOne" /\ wenv.answer = Resolved(JsResult("array", <<1, 2>>))
  /\ wpc[TRUE] = "done" /\ wout[TRUE] = Resolved(JsRow(1))

\* C31: squelQuery (and squelQueryReturningMany, squelQueryReturningOne on
\* top of it) for a compiled query whose text is empty or missing never
\* calls query, acquires no client, hands no statement to the driver and
\* releases nothing, with or without a client of the caller, and settles as
\* fulfilled: squelQuery and squelQueryReturningMany with the empty array,
\* squelQueryReturningOne with the empty object.
C31_NoTextNoDatabaseCall ==
  \A r \in Runs :
    (wenv.fn \in SquelFns /\ wenv.text \in {"", "undefined"}) =>
      /\ wtrace[r] = <<>> /\ wquery[r] = <<>> /\ wimpl[r] = <<>>
      /\ wout[r].kind \in {"pending", "resolved"}
      /\ wpc[r] = "done" =>
           /\ wout[r].kind = "resolved"
           /\ wenv.fn \in {"squelQuery", "squelQueryReturningMany"} =>
                (wout[r].val.t = "array" /\ wout[r].val.items = <<>>)
           /\ wenv.fn = "squelQueryReturningOne" =>
                (wout[r].val.t = "object" /\ ~wout[r].val.has /\ wout[r].val.id = 0)

\* C31 witness: squelQuery with an empty text and a client of the caller
\* has fulfilled with [] without a step on the pool or the driver.
C31_Witness ==
  /\ wenv.fn = "squelQuery" /\ wenv.text = "" /\ wenv.client # NoClient
  /\ wpc[FALSE] = "done" /\ wout[FALSE].kind = "resolved"
  /\ wout[FALSE].val.t = "array" /\ wtrace[FALSE] = <<>>

\* C32: squelQuery for a compiled query with a text has, once it has
\* called query, called it exactly once, with q.text as the query string,
\* with q.values as the args, or the empty array when q.values is missing,
\* and with the client the caller passed; the statement the driver gets
\* carries that text and those args.
C32_SquelPassesTextValuesClient ==
  \A r \in Runs :
    (wenv.fn \in SquelFns /\ wenv.text = "SQL") =>
      /\ wpc[r] \in {"idle", "call", "dispatch"} => wquery[r] = <<>>
      /\ wpc[r] \notin {"idle", "call", "dispatch"} =>
           /\ Len(wquery[r]) = 1
           /\ wquery[r][1].text = "SQL"
           /\ wquery[r][1].args = (IF wenv.args = "undefined" THEN "[]" ELSE "args")
           /\ wquery[r][1].client = wenv.client
      /\ \A i \in Executes(r) :
           /\ wtrace[r][i].text = "SQL"
           /\ wtrace[r][i].args = (IF wenv.args = "undefined" THEN "[]" ELSE "args")

\* C32 witness: squelQuery with a text, without values and with a client
\* of the caller has called query with [] and that client.
C32_Witness ==
  /\ wenv.fn = "squelQuery" /\ wenv.text = "SQL" /\ wenv.args = "undefined"
  /\ wenv.client # NoClient
  /\ wpc[TRUE] = "done"
  /\ wquery[TRUE] = <<QueryCall("SQL", "[]", wenv.client)>>

\* A step in which an 'error' handler of __startPool ran.
FaultStep == flog' # flog

IsStringProperty(p) == p.value.isString

\* The SQL-style names of the property names, as the tests of the
\* repository spell them.
first_name == <<"f", "i", "r", "s", "t", "_", "n", "a", "m", "e">>
last_name == <<"l", "a", "s", "t", "_", "n", "a", "m", "e">>
zip_code_5 == <<"z", "i", "p", "_", "c", "o", "d", "e", "_", "5">>
zip_code_4 == <<"z", "i", "p", "_", "c", "o", "d", "e", "_", "4">>
ColumnOf(field) ==
  CASE field = firstName -> first_name [] field = lastName -> last_name
    [] field = zipCode5 -> zip_code_5 [] field = zipCode4 -> zip_code_4

\* C34: genWhereLikePrefixConditions(criteria, args) returns one condition
\* for every property of criteria whose value is a string, in the order of
\* the properties, on the column named after the property and with the
\* placeholders numbered len(args)+1, len(args)+2, ... (from 1 when args is
\* missing); the args it returns are the given args followed by those
\* string values in the same order; a property whose value is no string
\* adds nothing; and the array the caller passed is as it was.
C34_WhereConditionsAndArgs ==
  npc = "where" =>
    LET strings == SelectSeq(gcriteria, IsStringProperty)
        given == gargs.items
    IN /\ Len(gout.conditions) = Len(strings)
       /\ \A i \in 1 .. Len(strings) :
            /\ gout.conditions[i].quoted = ColumnOf(strings[i].field)
            /\ gout.conditions[i].op = "LIKE"
            /\ gout.conditions[i].placeholder = Len(given) + i
       /\ Len(gout.args) = Len(given) + Len(strings)
       /\ \A i \in 1 .. Len(given) : gout.args[i] = given[i]
       /\ \A i \in 1 .. Len(strings) : gout.args[Len(given) + i] = strings[i].value.v
       /\ gout.caller = given

\* C34 witness: {firstName: 'Ja', lastName: 'Br'} with [] has given the
\* conditions on first_name with $1 and on last_name with $2 and the args
\* ['Ja', 'Br'].
C34_Witness ==
  /\ npc = "where"
  /\ gcriteria = <<[field |-> firstName, value |-> StringValue("Ja")],
                   [field |-> lastName, value |-> StringValue("Br")]>>
  /\ gargs = GivenArgs(<<>>)
  /\ Len(gout.conditions) = 2
  /\ gout.conditions[1].quoted = first_name /\ gout.conditions[1].placeholder = 1
  /\ gout.conditions[2].quoted = last_name /\ gout.conditions[2].placeholder = 2
  /\ gout.args = <<"Ja", "Br">>

\* A JavaScript-style name: letters and digits, no underscore.
IsJsStyle(name) ==
  \A i \in 1 .. Len(name) : name[i] \in LowerCase \cup UpperCase \cup Digits

\* An SQL-style name: segments of lowercase letters and digits, none of them
\* empty, joined by single underscores.
IsSqlStyle(name) ==
  /\ Len(name) >= 1
  /\ \A i \in 1 .. Len(name) : name[i] \in LowerCase \cup Digits \cup Underscore
  /\ name[1] # "_" /\ name[Len(name)] # "_"
  /\ \A i \in 1 .. Len(name) - 1 : ~(name[i] = "_" /\ name[i + 1] = "_")

\* C35: for every JavaScript-style name j,
\* sqlName2JsName(jsName2SqlName(j)) = j.
C35_JsNameRoundTrip ==
  (npc = "names" /\ IsJsStyle(nin)) => njsBack = nin

\* C35 witness: aB1 was converted to a_b_1 and back to aB1.
C35_Witness ==
  /\ npc = "names"
  /\ nin = <<"a", "B", "1">>
  /\ nsql = <<"a", "_", "b", "_", "1">>
  /\ njsBack = <<"a", "B", "1">>

\* C36: for every SQL-style name s,
\* jsName2SqlName(sqlName2JsName(s)) = s.
C36_SqlNameRoundTrip ==
  (npc = "names" /\ IsSqlStyle(nin)) => nsqlBack = nin

\* The step of caller s in which it calls an operation.
SCallsOp(s) == spc[s] = "held" /\ spc'[s] \in {"stmt", "handler"}

\* C37: every step of beginTransaction, commitTransaction and
\* rollbackTransaction on the caller's client leaves the caller's client
\* variable and the owner of every other client alone and leases no client;
\* the call hands exactly one statement, BEGIN, COMMIT or ROLLBACK, to the
\* caller's client, whatever ran on that client before, and no later step
\* of the operation hands over another; the client is released in a step of
\* the operation only by rollbackTransaction whose ROLLBACK failed.
C37_TransactionPrimitivesFrame ==
  [][\A s \in Sessions :
       (SOpStep(s) /\ sop'[s] \in {"begin", "commit", "rollback"}) =>
         LET c == sclient[s] IN
         /\ sclient'[s] = c
         /\ \A d \in Clients : owner'[d] # owner[d] =>
              /\ d = c /\ owner'[d] = NoOne
              /\ sop[s] = "rollback" /\ sstmt[s].kind = "rejected"
         /\ (srel'[s] # srel[s]) => (sop[s] = "rollback" /\ sstmt[s].kind = "rejected")
         /\ (spc[s] = "handler" /\ sop[s] = "rollback" /\ sstmt[s].kind = "rejected") =>
              (owner'[c] = NoOne /\ srel'[s] = srel[s] + 1)
         /\ IF SCallsOp(s)
              THEN /\ sissued'[s].client = c
                   /\ sissued'[s].text =
                        (IF sop'[s] = "begin" THEN "BEGIN"
                         ELSE IF sop'[s] = "commit" THEN "COMMIT" ELSE "ROLLBACK")
                   /\ \A d \in Clients : d # c => clog'[d] = clog[d]
                   /\ IF spc'[s] = "stmt"
                        THEN clog'[c] = Append(clog[c], [from |-> s, text |-> sissued'[s].text])
                        ELSE clog'[c] = clog[c]
              ELSE clog' = clog /\ sissued' = sissued]_vars

\* C37 witness: beginTransaction and then rollbackTransaction ran on the
\* caller's client and the ROLLBACK failed: the client got BEGIN and
\* ROLLBACK, one statement per call, and was released once, by the failed
\* rollbackTransaction.
C37_Witness ==
  \E s \in Sessions :
    /\ spc[s] = "held" /\ sop[s] = "rollback" /\ sstmt[s] = Rejected("CLIENT_ERROR")
    /\ Len(scalls[s]) = 2 /\ scalls[s][1].op = "begin"
    /\ clog[sclient[s]] = <<[from |-> s, text |-> "BEGIN"], [from |-> s, text |-> "ROLLBACK"]>>
    /\ owner[sclient[s]] = NoOne /\ srel[s] = 1 /\ soprel[s] = 1

\* The step is a getConnection call.
RegCallStep == ncalls' # ncalls

\* The call of the step failed because no configuration was found or because
\* __startPool raised (and not because hasOwnProperty could not be called).
RegFailedInCreate ==
  /\ ret'.kind = "threw"
  /\ connOwn["hasOwnProperty"] = 0

\* The configuration the call of the step resolves to is a valid one.
RegValidConfig ==
  \/ call'.override \in {"cfgA", "cfgB"}
  \/ call'.override = "none" /\
       <<call'.name, IF call'.mode = "" THEN "asDependency" ELSE call'.mode>> \in ConfigFiles

\* C38: a getConnection call that fails because no configuration is found
\* or because the pool start raises leaves the registry, the handles and
\* the pools as they were, with no entry for the name; and a later call for
\* a name that failed so and has no entry, made with a valid configuration,
\* returns a new handle whose pool it started, like a first call.
C38_FailedGetConnectionLeavesNoTrace ==
  [][RegCallStep =>
       /\ RegFailedInCreate =>
            /\ connOwn' = connOwn /\ connProto' = connProto /\ pools' = pools
            /\ nHandles' = nHandles /\ hcfg' = hcfg
            /\ call'.name # "__proto__" => connOwn'[call'.name] = 0
       /\ (call'.name \in rfailed /\ connOwn[call'.name] = 0 /\ RegValidConfig) =>
            /\ ret'.kind = "returned"
            /\ nHandles' = nHandles + 1
            /\ ret'.val = nHandles'
            /\ pools'[call'.name] = pools[call'.name] + 1]_vars

\* C39: once the promise fnDbValidate returned is rejected, the promise of
\* runBasicService is rejected with the same reason, and fnMakeQuery and
\* the execution function are not invoked then or later: no query is built,
\* no client acquired and no statement issued.
C39_DbValidateRejectionStopsPipeline ==
  vdbv = "rejected" =>
    /\ vpc = "done"
    /\ vout.kind = "rejected" /\ vout.val = "DBVALIDATE_REJECTED" /\ ~vout.hasErrors
    /\ \A i \in 1 .. Len(vlog) :
         vlog[i].fn \in {"fnValidate", "fnSanitizeRequest", "fnDbValidate"}
    /\ vlog[Len(vlog)].fn = "fnDbValidate"
    /\ vq = "none" /\ vpath = "none" /\ vacq = 0 /\ vrel = 0 /\ vstmt = NoStmt

\* C39 witness: a call with fnSanitizeRequest whose fnDbValidate promise was
\* rejected has settled as rejected after three steps.
C39_Witness ==
  /\ vpc = "done" /\ vdbv = "rejected"
  /\ vout.kind = "rejected" /\ vout.val = "DBVALIDATE_REJECTED"
  /\ Len(vlog) = 3 /\ vlog[2].fn = "fnSanitizeRequest" /\ vlog[3].fn = "fnDbValidate"

\* Every managed query of the run has settled.
AllSettled == \A q \in LiveQueries : qpc[q] = "done" /\ qout[q].kind # "pending"

\* C40: managed queries that share a pool of PoolMax clients, more queries
\* than clients, all settle in the end when the driver answers every
\* statement, and when all have settled every client is back in the pool.
C40_AllSettleAndNoClientLeased ==
  /\ <>AllSettled
  /\ [](AllSettled => \A c \in Clients : owner[c] = NoOne)

\* C40 witness: more queries than clients have all been served by the pool
\* and have settled, one of them rejected by the driver, and no client is
\* leased.
C40_Witness ==
  /\ AllSettled
  /\ Cardinality(LiveQueries) > Cardinality(Clients)
  /\ \A q \in LiveQueries : qacq[q] = 1 /\ qrel[q] = 1
  /\ \E q \in LiveQueries : qout[q] = Rejected("CLIENT_ERROR")
  /\ \E q \in LiveQueries : qout[q] = Resolved("OK")
  /\ \A c \in Clients : owner[c] = NoOne

====
